---- MODULE Spec2Model ----
(***************************************************************************)
(* Client-side authentication session of the portfolio/blog application:   *)
(* browser storage (Token Store), the request layer (ApiService), the      *)
(* AuthService wrappers, the AuthProvider session state, the Role Gate and *)
(* the route guards of App.                                                *)
(*                                                                         *)
(* Text is modelled glyph by glyph: a string is a sequence of one-glyph    *)
(* strings, an ASCII character standing for itself and a CJK character     *)
(* for its code point ("u7528" is U+7528).  Regular expressions are small  *)
(* item lists run by the matcher MatchEnds below.                          *)
(***************************************************************************)
EXTENDS Integers, Sequences, FiniteSets, TLC

-----------------------------------------------------------------------------
(* String literals of the sources and of the backend messages they name.   *)

\* "用戶名或密碼錯誤"
MsgBadCredentials ==
    <<"u7528", "u6236", "u540d", "u6216", "u5bc6", "u78bc", "u932f", "u8aa4">>
\* "認證失敗"
MsgAuthFailed ==
    <<"u8a8d", "u8b49", "u5931", "u6557">>
\* "登入失敗: 憑證錯誤"
MsgLoginCredentialError ==
    <<"u767b", "u5165", "u5931", "u6557", ":", " ", "u6191", "u8b49", "u932f", "u8aa4">>
\* "憑證錯誤"
MsgCredentialError ==
    <<"u6191", "u8b49", "u932f", "u8aa4">>
\* "登入失敗"
MsgLoginFailedPrefix ==
    <<"u767b", "u5165", "u5931", "u6557">>
\* "使用者名稱不存在"
MsgUserNotExistA ==
    <<"u4f7f", "u7528", "u8005", "u540d", "u7a31", "u4e0d", "u5b58", "u5728">>
\* "用戶名不存在"
MsgUserNotExistB ==
    <<"u7528", "u6236", "u540d", "u4e0d", "u5b58", "u5728">>
\* "用戶名長度必須在3-50個字符之間"
MsgUsernameLength ==
    <<"u7528", "u6236", "u540d", "u9577", "u5ea6", "u5fc5", "u9808", "u5728", "3", "-",
      "5", "0", "u500b", "u5b57", "u7b26", "u4e4b", "u9593">>
\* "密碼長度至少6個字符"
MsgPasswordLength ==
    <<"u5bc6", "u78bc", "u9577", "u5ea6", "u81f3", "u5c11", "6", "u500b", "u5b57", "u7b26">>
\* "郵箱格式不正確"
MsgEmailFormatA ==
    <<"u90f5", "u7bb1", "u683c", "u5f0f", "u4e0d", "u6b63", "u78ba">>
\* "郵箱格式不正确"
MsgEmailFormatB ==
    <<"u90f5", "u7bb1", "u683c", "u5f0f", "u4e0d", "u6b63", "u786e">>
\* "用戶名"
MsgYongHuMing ==
    <<"u7528", "u6236", "u540d">>
\* "使用者名稱"
MsgShiYongZheMingCheng ==
    <<"u4f7f", "u7528", "u8005", "u540d", "u7a31">>
\* "帳號"
MsgZhangHao ==
    <<"u5e33", "u865f">>
\* "已存在"
MsgYiCunZai ==
    <<"u5df2", "u5b58", "u5728">>
\* "郵箱"
MsgYouXiang ==
    <<"u90f5", "u7bb1">>
\* "已被使用"
MsgYiBeiShiYong ==
    <<"u5df2", "u88ab", "u4f7f", "u7528">>
\* "郵箱已存在"
MsgYouXiangYiCunZai ==
    <<"u90f5", "u7bb1", "u5df2", "u5b58", "u5728">>
\* "電子郵件"
MsgDianZiYouJian ==
    <<"u96fb", "u5b50", "u90f5", "u4ef6">>
\* "密碼確認不匹配"
MsgPasswordMismatch ==
    <<"u5bc6", "u78bc", "u78ba", "u8a8d", "u4e0d", "u5339", "u914d">>
\* "用戶名長度必須在3-50個字元之間"
ZhUsernameLength ==
    <<"u7528", "u6236", "u540d", "u9577", "u5ea6", "u5fc5", "u9808", "u5728", "3", "-",
      "5", "0", "u500b", "u5b57", "u5143", "u4e4b", "u9593">>
\* "密碼長度至少 6 個字元"
ZhPasswordLength ==
    <<"u5bc6", "u78bc", "u9577", "u5ea6", "u81f3", "u5c11", " ", "6", " ", "u500b",
      "u5b57", "u5143">>
\* "電子郵件格式不正確"
ZhEmailFormat ==
    <<"u96fb", "u5b50", "u90f5", "u4ef6", "u683c", "u5f0f", "u4e0d", "u6b63", "u78ba">>
\* "使用者名稱已存在"
ZhUsernameExists ==
    <<"u4f7f", "u7528", "u8005", "u540d", "u7a31", "u5df2", "u5b58", "u5728">>
\* "電子郵件已被使用"
ZhEmailExists ==
    <<"u96fb", "u5b50", "u90f5", "u4ef6", "u5df2", "u88ab", "u4f7f", "u7528">>
\* "兩次密碼輸入不一致"
ZhPasswordMismatch ==
    <<"u5169", "u6b21", "u5bc6", "u78bc", "u8f38", "u5165", "u4e0d", "u4e00", "u81f4">>
\* "Invalid username or password."
EnInvalidCredentials ==
    <<"I", "n", "v", "a", "l", "i", "d", " ", "u", "s", "e", "r", "n", "a", "m", "e",
      " ", "o", "r", " ", "p", "a", "s", "s", "w", "o", "r", "d", ".">>
\* "Username does not exist."
EnUserNotExist ==
    <<"U", "s", "e", "r", "n", "a", "m", "e", " ", "d", "o", "e", "s", " ", "n", "o",
      "t", " ", "e", "x", "i", "s", "t", ".">>
\* "Username must be between 3 and 50 characters."
EnUsernameLength ==
    <<"U", "s", "e", "r", "n", "a", "m", "e", " ", "m", "u", "s", "t", " ", "b", "e",
      " ", "b", "e", "t", "w", "e", "e", "n", " ", "3", " ", "a", "n", "d", " ", "5",
      "0", " ", "c", "h", "a", "r", "a", "c", "t", "e", "r", "s", ".">>
\* "Password must be at least 6 characters."
EnPasswordLength ==
    <<"P", "a", "s", "s", "w", "o", "r", "d", " ", "m", "u", "s", "t", " ", "b", "e",
      " ", "a", "t", " ", "l", "e", "a", "s", "t", " ", "6", " ", "c", "h", "a", "r",
      "a", "c", "t", "e", "r", "s", ".">>
\* "Invalid email format."
EnEmailFormat ==
    <<"I", "n", "v", "a", "l", "i", "d", " ", "e", "m", "a", "i", "l", " ", "f", "o",
      "r", "m", "a", "t", ".">>
\* "Username already exists."
EnUsernameExists ==
    <<"U", "s", "e", "r", "n", "a", "m", "e", " ", "a", "l", "r", "e", "a", "d", "y",
      " ", "e", "x", "i", "s", "t", "s", ".">>
\* "Email already exists."
EnEmailExists ==
    <<"E", "m", "a", "i", "l", " ", "a", "l", "r", "e", "a", "d", "y", " ", "e", "x",
      "i", "s", "t", "s", ".">>
\* "Passwords do not match."
EnPasswordMismatch ==
    <<"P", "a", "s", "s", "w", "o", "r", "d", "s", " ", "d", "o", " ", "n", "o", "t",
      " ", "m", "a", "t", "c", "h", ".">>
\* "Request failed. Please try again."
EnRequestFailed ==
    <<"R", "e", "q", "u", "e", "s", "t", " ", "f", "a", "i", "l", "e", "d", ".", " ",
      "P", "l", "e", "a", "s", "e", " ", "t", "r", "y", " ", "a", "g", "a", "i", "n", ".">>
\* "API Error: 401 Unauthorized"
MsgApiError401 ==
    <<"A", "P", "I", " ", "E", "r", "r", "o", "r", ":", " ", "4", "0", "1", " ", "U",
      "n", "a", "u", "t", "h", "o", "r", "i", "z", "e", "d">>
\* "Failed to fetch"
MsgFailedToFetch ==
    <<"F", "a", "i", "l", "e", "d", " ", "t", "o", " ", "f", "e", "t", "c", "h">>
\* "用戶"
GlyphYongHu ==
    <<"u7528", "u6236">>
\* "密碼"
GlyphMiMa ==
    <<"u5bc6", "u78bc">>
\* "認證"
GlyphRenZheng ==
    <<"u8a8d", "u8b49">>
\* "憑證"
GlyphPingZheng ==
    <<"u6191", "u8b49">>
\* "錯誤"
GlyphCuoWu ==
    <<"u932f", "u8aa4">>
\* "失敗"
GlyphShiBai ==
    <<"u5931", "u6557">>
\* "API Error: 400 Bad Request"
MsgApiError400 ==
    <<"A", "P", "I", " ", "E", "r", "r", "o", "r", ":", " ", "4", "0", "0", " ", "B",
      "a", "d", " ", "R", "e", "q", "u", "e", "s", "t">>
\* "Username already exists"
WordUsernameAlreadyExists ==
    <<"U", "s", "e", "r", "n", "a", "m", "e", " ", "a", "l", "r", "e", "a", "d", "y", " ", "e", "x", "i", "s", "t", "s">>
\* "Email already exists"
WordEmailAlreadyExists ==
    <<"E", "m", "a", "i", "l", " ", "a", "l", "r", "e", "a", "d", "y", " ", "e", "x", "i", "s", "t", "s">>
\* "使用者名稱至少需要3個字元"
UsernameTooShortError ==
    <<"u4f7f", "u7528", "u8005", "u540d", "u7a31", "u81f3", "u5c11", "u9700", "u8981", "3", "u500b", "u5b57", "u5143">>
\* t('registerPage.passwordsDoNotMatchError'): the text of that key, one glyph here
PasswordsDoNotMatchError == <<"registerPage.passwordsDoNotMatchError">>

-----------------------------------------------------------------------------
(* Regular expressions.                                                    *)

\* a literal run of glyphs
Lit(s) == [t |-> "lit", s |-> s, cs |-> {}]
\* ".*"
AnyRun == [t |-> "any", s |-> <<>>, cs |-> {}]
\* "[...]?"
Opt(cs) == [t |-> "opt", s |-> <<>>, cs |-> cs]
\* "[...]*"
Star(cs) == [t |-> "star", s |-> <<>>, cs |-> cs]

\* the characters \s matches among the glyphs used here
WhiteSpace == {" ", "u3000"}
\* ":" and the full-width colon
Colons == {":", "uff1a"}

LowerOf ==
    [A |-> "a", B |-> "b", C |-> "c", D |-> "d", E |-> "e", F |-> "f", G |-> "g",
     H |-> "h", I |-> "i", J |-> "j", K |-> "k", L |-> "l", M |-> "m", N |-> "n",
     O |-> "o", P |-> "p", Q |-> "q", R |-> "r", S |-> "s", T |-> "t", U |-> "u",
     V |-> "v", W |-> "w", X |-> "x", Y |-> "y", Z |-> "z"]

ToLower(m) ==
    [i \in 1..Len(m) |-> IF m[i] \in DOMAIN LowerOf THEN LowerOf[m[i]] ELSE m[i]]

\* the positions a match can have reached after one more item, P being the
\* positions it can have reached before it (a position is the index of the
\* next glyph to read)
Step(m, it, P) ==
    CASE it.t = "lit" ->
           {p + Len(it.s) : p \in {q \in P : /\ q + Len(it.s) - 1 <= Len(m)
                                             /\ \A j \in 1..Len(it.s) :
                                                   m[q + j - 1] = it.s[j]}}
      [] it.t = "any" ->
           {q \in 1..(Len(m) + 1) : \E p \in P : p <= q}
      [] it.t = "opt" ->
           P \cup {p + 1 : p \in {q \in P : q <= Len(m) /\ m[q] \in it.cs}}
      [] it.t = "star" ->
           {q \in 1..(Len(m) + 1) :
              \E p \in P : p <= q /\ \A j \in p..(q - 1) : m[j] \in it.cs}

\* the positions where a match of the item list can end, started anywhere in m
MatchEnds(m, items) ==
    LET ends[k \in 0..Len(items)] ==
            IF k = 0 THEN 1..(Len(m) + 1) ELSE Step(m, items[k], ends[k - 1])
    IN ends[Len(items)]

\* RegExp.prototype.test for an alternation alts (a sequence of item lists)
RegexTest(alts, m) ==
    \E a \in 1..Len(alts) : MatchEnds(m, alts[a]) # {}

\* a pattern as the /i flag reads it
LowerAlts(alts) ==
    [a \in 1..Len(alts) |->
       [k \in 1..Len(alts[a]) |-> [alts[a][k] EXCEPT !.s = ToLower(alts[a][k].s)]]]

\* RegExp.prototype.test under the /i flag, for a pattern already lowered
RegexTestI(loweredAlts, m) == RegexTest(loweredAlts, ToLower(m))

Min(S) == CHOOSE x \in S : \A y \in S : x <= y

-----------------------------------------------------------------------------
(* ApiService.translateServerMessage                                       *)

Langs == {"en", "zh-Hant"}

\* lang.startsWith('zh')
IsZhLang(language) == language = "zh-Hant"

maps ==
    << [zh |-> << <<Lit(MsgBadCredentials)>>, <<Lit(MsgAuthFailed)>> >>,
        en |-> EnInvalidCredentials, zhOut |-> MsgBadCredentials],
       [zh |-> << <<Lit(MsgLoginFailedPrefix), Opt(Colons), Star(WhiteSpace),
                    Lit(MsgCredentialError)>>,
                  <<Lit(MsgCredentialError)>> >>,
        en |-> EnInvalidCredentials, zhOut |-> MsgBadCredentials],
       [zh |-> << <<Lit(MsgUserNotExistA)>>, <<Lit(MsgUserNotExistB)>> >>,
        en |-> EnUserNotExist, zhOut |-> MsgUserNotExistA],
       [zh |-> << <<Lit(MsgUsernameLength)>> >>,
        en |-> EnUsernameLength, zhOut |-> ZhUsernameLength],
       [zh |-> << <<Lit(MsgPasswordLength)>> >>,
        en |-> EnPasswordLength, zhOut |-> ZhPasswordLength],
       [zh |-> << <<Lit(MsgEmailFormatA)>>, <<Lit(MsgEmailFormatB)>> >>,
        en |-> EnEmailFormat, zhOut |-> ZhEmailFormat],
       [zh |-> << <<Lit(MsgYongHuMing), AnyRun, Lit(MsgYiCunZai)>>,
                  <<Lit(MsgShiYongZheMingCheng), AnyRun, Lit(MsgYiCunZai)>>,
                  <<Lit(MsgZhangHao), AnyRun, Lit(MsgYiCunZai)>> >>,
        en |-> EnUsernameExists, zhOut |-> ZhUsernameExists],
       [zh |-> << <<Lit(MsgYouXiang), AnyRun, Lit(MsgYiBeiShiYong)>>,
                  <<Lit(MsgYouXiangYiCunZai)>>,
                  <<Lit(MsgDianZiYouJian), AnyRun, Lit(MsgYiBeiShiYong)>>,
                  <<Lit(MsgDianZiYouJian), AnyRun, Lit(MsgYiCunZai)>> >>,
        en |-> EnEmailExists, zhOut |-> ZhEmailExists],
       [zh |-> << <<Lit(MsgPasswordMismatch)>> >>,
        en |-> EnPasswordMismatch, zhOut |-> ZhPasswordMismatch] >>

\* /錯誤|失敗/
ErrorOrFailureRegex == << <<Lit(GlyphCuoWu)>>, <<Lit(GlyphShiBai)>> >>

\* "for (const m of maps) if (m.zh.test(message))": the first entry that
\* matches; 0 when none does
FirstMatch(message) ==
    LET hits == {k \in 1..Len(maps) : RegexTest(maps[k].zh, message)}
    IN IF hits = {} THEN 0 ELSE Min(hits)

\* the return statements of translateServerMessage, k being the matching entry
TranslationAt(k, message, language) ==
    IF k # 0
    THEN IF IsZhLang(language)
         THEN (IF maps[k].zhOut # <<>> THEN maps[k].zhOut ELSE message)
         ELSE maps[k].en
    ELSE IF IsZhLang(language) THEN message
    ELSE IF RegexTest(ErrorOrFailureRegex, message) THEN EnRequestFailed
    ELSE message

translateServerMessage(message, language) ==
    TranslationAt(FirstMatch(message), message, language)

-----------------------------------------------------------------------------
(* AuthProvider.login: normalisation of the error message                  *)

\* "Invalid", "credential"
WordInvalid == <<"I", "n", "v", "a", "l", "i", "d">>
WordCredential == <<"c", "r", "e", "d", "e", "n", "t", "i", "a", "l">>

\* /用戶|密碼|認證|憑證|Invalid|credential/i
AuthFailureRegex ==
    LowerAlts(<< <<Lit(GlyphYongHu)>>, <<Lit(GlyphMiMa)>>, <<Lit(GlyphRenZheng)>>,
                 <<Lit(GlyphPingZheng)>>, <<Lit(WordInvalid)>>, <<Lit(WordCredential)>> >>)

NormalizeLoginError(rawMessage) ==
    IF RegexTestI(AuthFailureRegex, rawMessage) THEN MsgBadCredentials ELSE rawMessage

-----------------------------------------------------------------------------
(* Values.  Every test the code applies to a token, a header value or an   *)
(* error is a truthiness test, so null, undefined and the empty string are *)
(* one value, None; a null user is NoUser, a null error NoError.           *)

None == ""
NoUser == [username |-> "", role |-> ""]
NoError == <<>>

\* UserRole, and the User fields the session logic reads
UserRole == {"USER", "ADMIN", "SUPER_USER"}

\* the accounts of the backend
Accounts ==
    { [username |-> "admin", role |-> "USER"],
      [username |-> "alice", role |-> "USER"],
      [username |-> "carol", role |-> "ADMIN"],
      [username |-> "boss", role |-> "SUPER_USER"] }

AccountNames == {a.username : a \in Accounts}

AccountOf(u) == CHOOSE a \in Accounts : a.username = u

\* token pairs the backend issues on /auth/login, by account
IssuedAccessToken ==
    [admin |-> "at_admin", alice |-> "at_alice", carol |-> "at_carol", boss |-> "at_boss"]
IssuedRefreshToken ==
    [admin |-> "rt_admin", alice |-> "rt_alice", carol |-> "rt_carol", boss |-> "rt_boss"]

\* the pair an OAuth redirect hands over in the fragment, and the account it is for
OAuthAccessToken == "abc"
OAuthRefreshToken == "xyz"
OAuthAccount == "alice"

TokenOwner(t) ==
    IF t = OAuthAccessToken THEN OAuthAccount
    ELSE IF \E u \in AccountNames : IssuedAccessToken[u] = t
         THEN CHOOSE u \in AccountNames : IssuedAccessToken[u] = t
         ELSE None

\* what a user may type into the login form
CorrectPassword == "good"
GoodLogins == {[username |-> u, password |-> CorrectPassword] : u \in AccountNames}
BadLogins == {[username |-> "alice", password |-> "bad"],
              [username |-> "ghost", password |-> "bad"]}
\* what the session specification types into LoginPage
LoginInputs ==
    {[username |-> "alice", password |-> CorrectPassword],
     [username |-> "boss", password |-> CorrectPassword]} \cup BadLogins

\* what a visitor may type into the register form; TextLength is username.length
CorrectEmail == "dave@x"
TakenEmail == "alice@x"
ShortPassword == "pw"
TextLength == [al |-> 2, dave |-> 4, alice |-> 5]
RegisterInputs ==
    { [username |-> "dave", email |-> CorrectEmail, password |-> CorrectPassword,
       confirmPassword |-> CorrectPassword],
      [username |-> "alice", email |-> CorrectEmail, password |-> CorrectPassword,
       confirmPassword |-> CorrectPassword],
      [username |-> "dave", email |-> TakenEmail, password |-> CorrectPassword,
       confirmPassword |-> CorrectPassword],
      [username |-> "dave", email |-> CorrectEmail, password |-> ShortPassword,
       confirmPassword |-> ShortPassword],
      [username |-> "dave", email |-> CorrectEmail, password |-> CorrectPassword,
       confirmPassword |-> "bad"],
      [username |-> "al", email |-> CorrectEmail, password |-> CorrectPassword,
       confirmPassword |-> CorrectPassword],
      [username |-> "al", email |-> CorrectEmail, password |-> CorrectPassword,
       confirmPassword |-> "bad"] }

\* the pair and the account the backend answers an accepted registration with
NewAccessToken == "at_dave"
NewRefreshToken == "rt_dave"
NewAccount(username) == [username |-> username, role |-> "USER"]

\* the account a refresh token was issued to
RefreshOwner(t) ==
    IF t = OAuthRefreshToken THEN OAuthAccount
    ELSE IF \E u \in AccountNames : IssuedRefreshToken[u] = t
         THEN CHOOSE u \in AccountNames : IssuedRefreshToken[u] = t
         ELSE None

\* URL fragments the app may be loaded with: key/value pairs in order
Hashes ==
    { <<>>,
      << [k |-> "token", v |-> OAuthAccessToken],
         [k |-> "refreshToken", v |-> OAuthRefreshToken] >>,
      << [k |-> "refreshToken", v |-> OAuthRefreshToken] >>,
      << [k |-> "token", v |-> OAuthAccessToken] >> }

\* the routes of App
Paths ==
    {"/", "/blog", "/login", "/register", "/account", "/blog/add", "/blog/edit/:postId",
     "/manage/photos", "/manage/posts"}

\* the routes the session specification walks: a public page, the login page
\* and a page behind both guards
CorePaths == {"/", "/login", "/manage/posts"}

\* "forced" is the logout that AuthService.refreshToken starts and does not await
Ops == {"me", "login", "logout", "api", "register", "refresh", "forced"}

\* how many requests may be in flight together
MaxInFlight == 2

-----------------------------------------------------------------------------
VARIABLES
    localStorage,     \* authToken, refreshToken, userProfile, authProvider
    user,             \* AuthProvider state
    isAuthenticated,
    loading,
    error,
    boot,             \* position of initializeAuth: "unknown", "fetching", "done"
    hash,             \* window.location.hash, parsed into pairs
    location,         \* the path the router shows
    isSuperUser,      \* App's isSuperUser as of the last render
    lang,             \* i18n.language
    net,              \* the request in flight of each operation
    expired,          \* a request sent with an access token met HTTP 401 and
                      \* no login has succeeded since
    last,             \* the handler that ran last: its response, its input and
                      \* what it returned
    form,             \* RegisterPage: usernameError, emailError, error
    content,          \* a content page: its items, its controls and what it shows
    userAddedPosts,   \* App state: the posts, the portfolio items and the comments
    userAddedPortfolioItems,
    allComments,
    backend,          \* what the content API holds: posts, portfolio, comments
    requests,         \* the content handlers of App that are at an await
    pageState         \* the state of the mounted page that is not in content

vars ==
    <<localStorage, user, isAuthenticated, loading, error, boot, hash, location,
      isSuperUser, lang, net, expired, last, form, content, userAddedPosts,
      userAddedPortfolioItems, allComments, backend, requests, pageState>>

\* the state of App's content and of the pages that manage it
appVars ==
    <<userAddedPosts, userAddedPortfolioItems, allComments, backend, requests, pageState>>

EmptyStorage ==
    [authToken |-> None, refreshToken |-> None, userProfile |-> NoUser,
     authProvider |-> None]

NoBody == [token |-> None, refreshToken |-> None, user |-> NoUser]

Idle == [st |-> "idle", config |-> <<>>, tok |-> None]

\* status 0 stands for "no response": fetch itself failed
NoEvent == [op |-> "none", status |-> 0, withToken |-> FALSE, arg |-> None, ret |-> "none",
            body |-> NoBody]

Event(op, status, withToken, arg) ==
    [op |-> op, status |-> status, withToken |-> withToken, arg |-> arg, ret |-> "none",
     body |-> NoBody]

\* the same event of a handler that was answered body and returned value
\* ("true", "false", "response") or threw ("throw")
Returns(e, value, body) == [e EXCEPT !.ret = value, !.body = body]

\* no content page is mounted
NoContent ==
    [view |-> "none", items |-> <<>>, category |-> None, searchTerm |-> <<>>,
     sortOrder |-> None, currentPage |-> 1, itemsPerPage |-> 1, processed |-> <<>>,
     shown |-> <<>>]

\* no page with state of its own is mounted
NoPage == [name |-> "none"]

\* a backend without content
NoBackend == [posts |-> {}, portfolio |-> {}, comments |-> <<>>, issued |-> 0]

\* RegisterPage: useState(null) of usernameError, emailError and error
NoForm == [usernameError |-> <<>>, emailError |-> <<>>, error |-> <<>>]

-----------------------------------------------------------------------------
(* Browser storage: ApiService token helpers and the AuthService accessors *)

getToken(ls) == ls.authToken

removeToken(ls) == [ls EXCEPT !.authToken = None]

\* AuthService.isAuthenticated
HasStoredToken(ls) == ls.authToken # None

getCurrentUser(ls) == ls.userProfile

setCurrentUser(ls, u) == [ls EXCEPT !.userProfile = u]

\* the token writes without setItem('refreshToken', ...)
StoreAccessTokenOnly(ls, response) ==
    IF response.token # None
    THEN [ls EXCEPT !.authToken = response.token, !.authProvider = "local"]
    ELSE ls

\* AuthService.login: "if (response.token)" and the three setItem calls
StoreTokens(ls, response) ==
    IF response.token # None
    THEN [ls EXCEPT !.authToken = response.token,
                    !.refreshToken = response.refreshToken,
                    !.authProvider = "local"]
    ELSE ls

\* logout's cleanup without removeItem('userProfile')
ClearAuthStorageKeepingProfile(ls) ==
    [ls EXCEPT !.authToken = None, !.refreshToken = None, !.authProvider = None]

\* AuthService.logout: the four removeItem calls of its finally block
ClearAuthStorage(ls) ==
    [ls EXCEPT !.authToken = None, !.refreshToken = None, !.userProfile = NoUser,
               !.authProvider = None]

\* URLSearchParams.get: the first value of the key, null when there is none
ParamGet(h, key) ==
    LET at == {i \in 1..Len(h) : h[i].k = key}
    IN IF at = {} THEN None ELSE h[Min(at)].v

\* AuthService.bootstrapFromHash: the storage and the fragment it leaves
bootstrapFromHash(ls, h) ==
    IF h = <<>> THEN [ls |-> ls, hash |-> h, found |-> FALSE]
    ELSE LET token == ParamGet(h, "token")
             refreshToken == ParamGet(h, "refreshToken")
             ls1 == IF token # None THEN [ls EXCEPT !.authToken = token] ELSE ls
             ls2 == IF refreshToken # None
                    THEN [ls1 EXCEPT !.refreshToken = refreshToken] ELSE ls1
         IN IF token # None
            THEN [ls |-> ls2, hash |-> <<>>, found |-> TRUE]
            ELSE [ls |-> ls2, hash |-> h, found |-> FALSE]

-----------------------------------------------------------------------------
(* ApiService.request: the RequestInit it builds, and what a response does *)

NoHeaders == [x \in {} |-> None]

Bearer(token) == <<"Bearer", token>>

OptionHeaders(options) ==
    IF "headers" \in DOMAIN options THEN options.headers ELSE NoHeaders

\* object spread: the keys written later win, so they stand left of @@
BuildConfig(options, token, language) ==
    LET merged ==
            OptionHeaders(options)
            @@ ("Accept-Language" :> (IF language # None THEN language ELSE "en"))
            @@ (IF token # None THEN "Authorization" :> Bearer(token) ELSE NoHeaders)
            @@ ("Content-Type" :> "application/json")
    IN options @@ ("headers" :> merged)

Send(options, ls, language) ==
    [st |-> "sent", config |-> BuildConfig(options, getToken(ls), language),
     tok |-> getToken(ls)]

LoginOptions(username, password) ==
    [method |-> "POST", body |-> [username |-> username, password |-> password]]

MeOptions == [method |-> "GET"]

LogoutOptions(ls) ==
    [method |-> "POST", headers |-> ("Refresh-Token" :> ls.refreshToken)]

\* ApiService.getPosts and the other content calls
ContentOptions == [method |-> "GET"]

\* `API Error: ${response.status} ${response.statusText}`
ApiErrorText(status) == IF status = 401 THEN MsgApiError401 ELSE MsgApiError400

\* request(): response.ok
RequestOk(r) == r.status = 200

\* request() without its 401 line
RequestStorageIgnoring401(ls, r) == ls

\* request(): "if (response.status === 401) this.removeToken()"
RequestStorage(ls, r) == IF r.status = 401 THEN removeToken(ls) ELSE ls

\* the messages the backend sends with a rejected login
WrongPasswordMessages == {MsgBadCredentials, MsgAuthFailed, MsgLoginCredentialError}
UnknownUserMessages == {MsgUserNotExistA, MsgUserNotExistB}

ErrorStatuses == {400, 401}

\* errorData.message || ... || `API Error: ...`
RawMessage(r) == IF r.message # <<>> THEN r.message ELSE ApiErrorText(r.status)

\* request(): the message of the error it throws (fetch's own TypeError when
\* there is no response)
RequestError(r, language) ==
    IF r.status = 0 THEN MsgFailedToFetch
    ELSE translateServerMessage(RawMessage(r), language)

-----------------------------------------------------------------------------
(* The backend, as far as the client can tell                              *)

NetworkFailure == [status |-> 0, message |-> <<>>, body |-> NoBody]
Ok(body) == [status |-> 200, message |-> <<>>, body |-> body]
Reject(status, message) == [status |-> status, message |-> message, body |-> NoBody]

AcceptsCredentials(body) ==
    body.username \in AccountNames /\ body.password = CorrectPassword

SentToken(config) ==
    IF "Authorization" \in DOMAIN config.headers
    THEN config.headers["Authorization"][2] ELSE None

\* the messages the backend sends with a rejected registration
UsernameTakenMessages == {MsgYongHuMing \o MsgYiCunZai, MsgShiYongZheMingCheng \o MsgYiCunZai}
EmailTakenMessages == {MsgYouXiang \o MsgYiBeiShiYong, MsgYouXiangYiCunZai}
OtherRegisterMessages == {MsgPasswordLength}

RegisterRejections(body) ==
    IF body.username \in AccountNames THEN UsernameTakenMessages
    ELSE IF body.email = TakenEmail THEN EmailTakenMessages
    ELSE IF body.password = ShortPassword THEN OtherRegisterMessages
    ELSE {}

Responses(op, slot) ==
    {NetworkFailure} \cup
    CASE op = "login" ->
           IF AcceptsCredentials(slot.config.body)
           THEN {Ok([token |-> IssuedAccessToken[slot.config.body.username],
                     refreshToken |-> IssuedRefreshToken[slot.config.body.username],
                     user |-> AccountOf(slot.config.body.username)])}
           ELSE {Reject(s, m) :
                   s \in ErrorStatuses,
                   m \in WrongPasswordMessages \cup
                         (IF slot.config.body.username \in AccountNames
                          THEN {} ELSE UnknownUserMessages)}
      [] op = "me" ->
           (IF TokenOwner(SentToken(slot.config)) # None
            THEN {Ok([NoBody EXCEPT !.user = AccountOf(TokenOwner(SentToken(slot.config)))])}
            ELSE {})
           \cup {Reject(s, <<>>) : s \in ErrorStatuses}
      [] op = "register" ->
           IF RegisterRejections(slot.config.body) = {}
           THEN {Ok([token |-> NewAccessToken, refreshToken |-> NewRefreshToken,
                     user |-> NewAccount(slot.config.body.username)])}
           ELSE {Reject(s, m) : s \in ErrorStatuses, m \in RegisterRejections(slot.config.body)}
      [] op = "refresh" ->
           (IF RefreshOwner(slot.config.body.refreshToken) # None
            THEN {Ok([token |-> IssuedAccessToken[RefreshOwner(slot.config.body.refreshToken)],
                      refreshToken |-> IssuedRefreshToken[RefreshOwner(slot.config.body.refreshToken)],
                      user |-> AccountOf(RefreshOwner(slot.config.body.refreshToken))])}
            ELSE {})
           \cup {Reject(s, <<>>) : s \in ErrorStatuses}
      [] OTHER ->
           {Ok(NoBody)} \cup {Reject(s, <<>>) : s \in ErrorStatuses}

\* AuthProvider.login: "return true" of the try block, "return false" of the catch block
LoginReturn(r) == IF RequestOk(r) THEN "true" ELSE "false"

\* AuthProvider.login's catch block: the text it hands to setError
LoginErrorOf(r, language) == NormalizeLoginError(RequestError(r, language))

\* every way /auth/login can fail, and the text shown for each: LoginErrorOf,
\* evaluated once
LoginFailures ==
    {NetworkFailure} \cup
    {Reject(s, m) : s \in ErrorStatuses, m \in WrongPasswordMessages \cup UnknownUserMessages}
LoginErrorTable == {<<r, l, LoginErrorOf(r, l)>> : r \in LoginFailures, l \in Langs}
LoginErrorShown(r, language) ==
    (CHOOSE t \in LoginErrorTable : t[1] = r /\ t[2] = language)[3]

-----------------------------------------------------------------------------
(* Role Gate and route guards of App                                       *)

\* the Role Gate by role alone
IsSuperUserByRole(authenticated, u) ==
    authenticated /\ (u.role = "SUPER_USER" \/ u.role = "ADMIN")

\* App: const isSuperUser = isAuthenticated && (...)
IsSuperUserOf(authenticated, u) ==
    authenticated /\ (u.role = "SUPER_USER" \/ u.role = "ADMIN" \/ u.username = "admin")

Page(name) == [kind |-> "page", to |-> name]
NavigateTo(path) == [kind |-> "navigate", to |-> path]

ProtectedRoute(children, authenticated) ==
    IF ~authenticated THEN NavigateTo("/login") ELSE children

\* the guard of the management routes without its test
SuperUserRouteOpen(children, superUser) == children

SuperUserRoute(children, superUser) ==
    IF ~superUser THEN NavigateTo("/") ELSE children

\* the element of each <Route>; LoginPage leaves for "/" once authenticated
RouteElement(path, authenticated, superUser) ==
    CASE path = "/account" ->
           ProtectedRoute(Page("AccountPage"), authenticated)
      [] path = "/blog/add" ->
           ProtectedRoute(SuperUserRoute(Page("AddBlogPostPage"), superUser), authenticated)
      [] path = "/blog/edit/:postId" ->
           ProtectedRoute(SuperUserRoute(Page("EditBlogPostPage"), superUser), authenticated)
      [] path = "/manage/photos" ->
           ProtectedRoute(SuperUserRoute(Page("PhotoManagementPage"), superUser),
                          authenticated)
      [] path = "/manage/posts" ->
           ProtectedRoute(SuperUserRoute(Page("PostManagementPage"), superUser),
                          authenticated)
      [] path = "/login" ->
           IF authenticated THEN NavigateTo("/") ELSE Page("LoginPage")
      [] path = "/register" -> Page("RegisterPage")
      [] path = "/blog" -> Page("BlogPage")
      [] OTHER -> Page("HomePage")

\* follow <Navigate replace> until a page renders
RECURSIVE Settle(_, _, _)
Settle(path, authenticated, superUser) ==
    LET e == RouteElement(path, authenticated, superUser)
    IN IF e.kind = "navigate" THEN Settle(e.to, authenticated, superUser) ELSE path

\* LoginPage and RegisterPage call clearError when they mount and when they unmount
AuthPages == {"/login", "/register"}

\* a render of App after a handler that leaves err as the session error: the
\* Role Gate, then the routes, then the effects of the pages that mount or unmount
\* RegisterPage keeps f while it stays mounted and starts from NoForm when it mounts
RenderWith(path, err, f) ==
    /\ isSuperUser' = IsSuperUserOf(isAuthenticated', user')
    /\ location' = Settle(path, isAuthenticated', isSuperUser')
    /\ error' = IF location' # location /\ (location \in AuthPages \/ location' \in AuthPages)
                THEN NoError ELSE err
    /\ form' = IF location' = "/register" /\ location = "/register" THEN f ELSE NoForm

Render(path, err) == RenderWith(path, err, form)

InFlight == Cardinality({o \in Ops : net[o].st # "idle"})

\* what may come back for the request of operation op, if one is under way
Answers(op) == IF net[op].st = "sent" THEN Responses(op, net[op]) ELSE {}


-----------------------------------------------------------------------------
(* Content List Pipeline: the filter, sort and slice of PostManagementPage, *)
(* CategoryArchivePage, PhotoManagementPage and PortfolioPage.  An item    *)
(* carries the fields the pipeline reads; <<>>, "" and 0 are the missing   *)
(* values, which the code tests by truthiness.                             *)

ItemA ==
    [id |-> <<"p", "1">>, title |-> <<"A", "b">>, titleZh |-> <<>>, date |-> 3,
     categoryKey |-> "photography", views |-> 5, content |-> <<"x", " ", "y">>,
     contentZh |-> <<>>, excerpt |-> <<>>, excerptZh |-> <<>>]
ItemB ==
    [id |-> <<"p", "2">>, title |-> <<"a", "b">>, titleZh |-> <<"u5c71">>, date |-> 3,
     categoryKey |-> "travel", views |-> 0, content |-> <<>>,
     contentZh |-> <<>>, excerpt |-> <<"B", "c">>, excerptZh |-> <<>>]
ItemC ==
    [id |-> <<"p", "3">>, title |-> <<>>, titleZh |-> <<>>, date |-> 1,
     categoryKey |-> "", views |-> 5, content |-> <<>>,
     contentZh |-> <<"a", "B">>, excerpt |-> <<>>, excerptZh |-> <<>>]
ItemD ==
    [id |-> <<"p", "4">>, title |-> <<"A", "b">>, titleZh |-> <<"u6d77">>, date |-> 2,
     categoryKey |-> "tech", views |-> 2, content |-> <<>>,
     contentZh |-> <<>>, excerpt |-> <<>>, excerptZh |-> <<"c">>]
\* a portfolio item without a date
ItemE ==
    [id |-> <<"p", "5">>, title |-> <<>>, titleZh |-> <<>>, date |-> 0,
     categoryKey |-> "travel", views |-> 0, content |-> <<>>,
     contentZh |-> <<>>, excerpt |-> <<>>, excerptZh |-> <<>>]

Posts == {ItemA, ItemB, ItemC, ItemD}
PortfolioItems == {ItemA, ItemB, ItemD, ItemE}

\* blogCategoryDefinitions: the logical categories and the category keys of each
blogCategoryDefinitions ==
    << [titleKey |-> "categoryPage.photography", categoryKeys |-> {"photography", "travel"}],
       [titleKey |-> "categoryPage.tech", categoryKeys |-> {"tech"}] >>

FilterAll == "portfolioPage.filterAll"

SortOrders == {"date-asc", "date-desc", "title-asc", "title-desc", "views-asc", "views-desc"}

\* CategoryArchivePage and PortfolioPage: const ITEMS_PER_PAGE
ArchiveItemsPerPage == 8
PortfolioItemsPerPage == 12

\* Array.prototype.slice for 0 <= start
Slice(xs, start, end) ==
    IF start >= Len(xs) \/ end <= start THEN <<>>
    ELSE SubSeq(xs, start + 1, IF end < Len(xs) THEN end ELSE Len(xs))

\* Array.prototype.filter
Filter(xs, Keep(_)) ==
    LET f[n \in 0..Len(xs)] ==
            IF n = 0 THEN <<>>
            ELSE IF Keep(xs[n]) THEN Append(f[n - 1], xs[n]) ELSE f[n - 1]
    IN f[Len(xs)]

\* String.prototype.includes
Includes(s, t) ==
    \E i \in 1..(Len(s) - Len(t) + 1) : SubSeq(s, i, i + Len(t) - 1) = t

\* String.prototype.trim() !== ''
TrimIsNotEmpty(s) == \E i \in 1..Len(s) : s[i] \notin WhiteSpace

\* the collation order of the glyphs the items use: space, digits, letters, Han
CollationRank(g) ==
    CASE g = " " -> 1
      [] g \in {"1", "2", "3", "4", "5", "6", "7", "8", "9"} -> 2
      [] g = "a" -> 10 [] g = "b" -> 11 [] g = "c" -> 12 [] g = "p" -> 13
      [] g = "x" -> 14 [] g = "y" -> 15
      [] g = "u5c71" -> 20 [] g = "u6d77" -> 21
      [] OTHER -> 30

\* the sign of a number
Sign(n) == IF n < 0 THEN -1 ELSE IF n > 0 THEN 1 ELSE 0

\* the first index at which two texts differ, 0 when one is a prefix of the other
FirstDifference(s, t) ==
    LET d == {i \in 1..(IF Len(s) < Len(t) THEN Len(s) ELSE Len(t)) : s[i] # t[i]}
    IN IF d = {} THEN 0 ELSE Min(d)

\* the comparison of s and t from their lower-case forms and the first
\* differences p of the letters and q of the glyphs
CompareFrom(s, t, ls, lt, p, q) ==
    IF p # 0 THEN Sign(CollationRank(ls[p]) - CollationRank(lt[p]))
    ELSE IF Len(s) # Len(t) THEN Sign(Len(s) - Len(t))
    ELSE IF q # 0 THEN (IF s[q] \in DOMAIN LowerOf THEN 1 ELSE -1)
    ELSE 0

\* String.prototype.localeCompare: the letters first, then the lengths, then
\* lower case before upper case at the first difference of case
LocaleCompare(s, t) ==
    CompareFrom(s, t, ToLower(s), ToLower(t),
                FirstDifference(ToLower(s), ToLower(t)), FirstDifference(s, t))

\* (i18n.language === 'zh-Hant' && a.titleZh) ? a.titleZh : (a.title || fallback)
TitleFor(a, language, fallback) ==
    IF language = "zh-Hant" /\ a.titleZh # <<>> THEN a.titleZh
    ELSE IF a.title # <<>> THEN a.title ELSE fallback

\* the comparator of PostManagementPage.processedPosts and of
\* CategoryArchivePage.sortedPosts
PostCompare(a, b, k, language) ==
    CASE k = "date-asc" -> a.date - b.date
      [] k = "title-asc" ->
           LocaleCompare(TitleFor(a, language, <<>>), TitleFor(b, language, <<>>))
      [] k = "title-desc" ->
           LocaleCompare(TitleFor(b, language, <<>>), TitleFor(a, language, <<>>))
      [] k = "views-desc" -> b.views - a.views
      [] k = "views-asc" -> a.views - b.views
      [] OTHER -> b.date - a.date

\* the comparator of PhotoManagementPage.processedItems: new Date(a.date || 0)
PhotoCompare(a, b, k, language) ==
    CASE k = "date-asc" -> (IF a.date # 0 THEN a.date ELSE 0) - (IF b.date # 0 THEN b.date ELSE 0)
      [] k = "title-asc" ->
           LocaleCompare(TitleFor(a, language, <<>>), TitleFor(b, language, <<>>))
      [] k = "title-desc" ->
           LocaleCompare(TitleFor(b, language, <<>>), TitleFor(a, language, <<>>))
      [] k = "views-desc" -> b.views - a.views
      [] k = "views-asc" -> a.views - b.views
      [] OTHER -> (IF b.date # 0 THEN b.date ELSE 0) - (IF a.date # 0 THEN a.date ELSE 0)

\* the comparator of PortfolioPage.sortedItems, for the sort keys by date,
\* title and views: a.date ? new Date(a.date).getTime() : 0, a.title || a.id
PortfolioCompare(a, b, k, language) ==
    CASE k = "date-asc" -> (IF a.date # 0 THEN a.date ELSE 0) - (IF b.date # 0 THEN b.date ELSE 0)
      [] k = "title-asc" ->
           LocaleCompare(TitleFor(a, language, a.id), TitleFor(b, language, b.id))
      [] k = "title-desc" ->
           LocaleCompare(TitleFor(b, language, b.id), TitleFor(a, language, a.id))
      [] k = "views-desc" -> b.views - a.views
      [] k = "views-asc" -> a.views - b.views
      [] OTHER -> (IF b.date # 0 THEN b.date ELSE 0) - (IF a.date # 0 THEN a.date ELSE 0)

Views == {"posts", "archive", "photos", "portfolio"}

CompareOf(view, a, b, k, language) ==
    CASE view = "photos" -> PhotoCompare(a, b, k, language)
      [] view = "portfolio" -> PortfolioCompare(a, b, k, language)
      [] OTHER -> PostCompare(a, b, k, language)

\* the greatest element of a set of indices, 0 for the empty set
LastOf(S) == IF S = {} THEN 0 ELSE CHOOSE j \in S : \A i \in S : i <= j

\* x put behind the first p elements of a list
InsertAt(sorted, x, p) ==
    SubSeq(sorted, 1, p) \o <<x>> \o SubSeq(sorted, p + 1, Len(sorted))

\* x put into a sorted list behind the last element that does not compare greater
Insert(sorted, x, view, k, language) ==
    InsertAt(sorted, x,
             LastOf({j \in 1..Len(sorted) : CompareOf(view, sorted[j], x, k, language) <= 0}))

\* x put into a sorted list in front of the elements it compares equal to
InsertBeforeEqual(sorted, x, view, k, language) ==
    InsertAt(sorted, x,
             LastOf({j \in 1..Len(sorted) : CompareOf(view, sorted[j], x, k, language) < 0}))

\* a sort that puts an element in front of the elements it compares equal to
ArraySortUnstable(xs, view, k, language) ==
    LET f[n \in 0..Len(xs)] ==
            IF n = 0 THEN <<>>
            ELSE CHOOSE r \in {InsertBeforeEqual(sorted, xs[n], view, k, language) :
                                  sorted \in {f[n - 1]}} : TRUE
    IN f[Len(xs)]

\* Array.prototype.sort with a comparator: a stable sort, computed by
\* insertion, sorted being the list of the first n - 1 elements in order
ArraySort(xs, view, k, language) ==
    LET f[n \in 0..Len(xs)] ==
            IF n = 0 THEN <<>>
            ELSE CHOOSE r \in {Insert(sorted, xs[n], view, k, language) :
                                  sorted \in {f[n - 1]}} : TRUE
    IN f[Len(xs)]

\* blogCategoryDefinitions.find(def => def.titleKey === key): its index, 0 for undefined
FindCategoryDef(key) ==
    LET hits == {d \in 1..Len(blogCategoryDefinitions) :
                    blogCategoryDefinitions[d].titleKey = key}
    IN IF hits = {} THEN 0 ELSE Min(hits)

\* post.categoryKey && categoryKeys.includes(post.categoryKey)
InCategory(p, categoryKeys) == p.categoryKey # "" /\ p.categoryKey \in categoryKeys

\* processedPosts with its filter left out
processedPostsUnfiltered(posts, filterCategory, sortOrder, language) ==
    ArraySort(posts, "posts", sortOrder, language)

\* PostManagementPage.processedPosts
processedPosts(posts, filterCategory, sortOrder, language) ==
    LET d == FindCategoryDef(filterCategory)
        items == IF filterCategory # "all" /\ d # 0
                 THEN Filter(posts, LAMBDA p : InCategory(p, blogCategoryDefinitions[d].categoryKeys))
                 ELSE posts
    IN ArraySort(items, "posts", sortOrder, language)

\* the categoryInfo prop of CategoryArchivePage for a title key
CategoryInfo(key) ==
    IF FindCategoryDef(key) = 0 THEN [titleKey |-> FilterAll, categoryKeys |-> {}]
    ELSE blogCategoryDefinitions[FindCategoryDef(key)]

\* the search filter of sortedPosts applied to every term, blank or not
MatchesSearchUntrimmed(post, searchTerm) ==
    LET lowercasedTerm == ToLower(searchTerm)
    IN \/ Includes(ToLower(post.title), lowercasedTerm)
       \/ Includes(ToLower(post.titleZh), lowercasedTerm)
       \/ Includes(ToLower(post.content), lowercasedTerm)
       \/ Includes(ToLower(post.contentZh), lowercasedTerm)
       \/ Includes(ToLower(post.excerpt), lowercasedTerm)
       \/ Includes(ToLower(post.excerptZh), lowercasedTerm)

\* CategoryArchivePage.sortedPosts: what its search filter keeps
MatchesSearch(post, searchTerm) ==
    LET lowercasedTerm == ToLower(searchTerm)
    IN TrimIsNotEmpty(searchTerm) =>
         \/ Includes(ToLower(post.title), lowercasedTerm)
         \/ Includes(ToLower(post.titleZh), lowercasedTerm)
         \/ Includes(ToLower(post.content), lowercasedTerm)
         \/ Includes(ToLower(post.contentZh), lowercasedTerm)
         \/ Includes(ToLower(post.excerpt), lowercasedTerm)
         \/ Includes(ToLower(post.excerptZh), lowercasedTerm)

\* CategoryArchivePage.sortedPosts
sortedPosts(allPosts, categoryInfo, searchTerm, sortOrder, language) ==
    LET inCategory == IF categoryInfo.titleKey = FilterAll THEN allPosts
                      ELSE Filter(allPosts, LAMBDA p : InCategory(p, categoryInfo.categoryKeys))
        filtered == Filter(inCategory, LAMBDA p : MatchesSearch(p, searchTerm))
    IN ArraySort(filtered, "archive", sortOrder, language)

\* PhotoManagementPage.processedItems
processedItems(portfolioItems, filterCategory, sortOrder, language) ==
    LET items == IF filterCategory # "all"
                 THEN Filter(portfolioItems, LAMBDA p : p.categoryKey = filterCategory)
                 ELSE portfolioItems
    IN ArraySort(items, "photos", sortOrder, language)

\* PortfolioPage.sortedItems and filteredItems
filteredItems(allPortfolioItems, activeFilter, sortKey, language) ==
    LET sortedItems == ArraySort(allPortfolioItems, "portfolio", sortKey, language)
    IN IF activeFilter = FilterAll THEN sortedItems
       ELSE Filter(sortedItems, LAMBDA p : p.categoryKey = activeFilter)

\* a slice that starts one page too far
paginateFromNextPage(items, page, size) ==
    Slice(items, page * size, page * size + size)

\* paginatedPosts, paginatedItems and the pagination effect of
\* CategoryArchivePage: slice(startIndex, startIndex + itemsPerPage)
paginate(items, page, size) ==
    Slice(items, (page - 1) * size, (page - 1) * size + size)

\* the list a content page computes from its props and controls
Processed(c, language) ==
    CASE c.view = "posts" -> processedPosts(c.items, c.category, c.sortOrder, language)
      [] c.view = "archive" ->
           sortedPosts(c.items, CategoryInfo(c.category), c.searchTerm, c.sortOrder, language)
      [] c.view = "photos" -> processedItems(c.items, c.category, c.sortOrder, language)
      [] c.view = "portfolio" -> filteredItems(c.items, c.category, c.sortOrder, language)
      [] OTHER -> <<>>

PageSize(c) ==
    CASE c.view = "archive" -> ArchiveItemsPerPage
      [] c.view = "portfolio" -> PortfolioItemsPerPage
      [] OTHER -> c.itemsPerPage

\* the content page showing its memoised list.  CategoryArchivePage sorts
\* allPosts itself when neither the category nor the search has copied it
\* ("filtered = allPosts; filtered.sort")
Showing(c, processed) ==
    [c EXCEPT !.processed = processed,
              !.shown = IF c.view = "portfolio"
                        THEN Slice(processed, 0, PortfolioItemsPerPage)
                        ELSE paginate(processed, c.currentPage, PageSize(c)),
              !.items = IF /\ c.view = "archive"
                           /\ c.category = FilterAll
                           /\ ~TrimIsNotEmpty(c.searchTerm)
                        THEN processed ELSE c.items]

\* a render of the content page: its memoised list and the part of it on screen
Rendered(c, language) ==
    IF c.view = "none" THEN c ELSE Showing(c, Processed(c, language))
-----------------------------------------------------------------------------
(* The program.  A handler runs from one await to the next without         *)
(* interruption (one thread, run to completion), so each action is the     *)
(* code between two awaits.  The user acts once initializeAuth has ended.  *)

\* a first load: empty storage, AuthProvider's initial state, nothing in flight
Init ==
    /\ localStorage = EmptyStorage
    /\ user = NoUser
    /\ isAuthenticated = FALSE
    /\ loading = TRUE
    /\ error = NoError
    /\ boot = "unknown"
    /\ hash \in Hashes
    /\ isSuperUser = FALSE
    /\ location \in {Settle(p, FALSE, FALSE) : p \in CorePaths}
    /\ lang \in Langs
    /\ net = [o \in Ops |-> Idle]
    /\ expired = FALSE
    /\ last = NoEvent
    /\ form = NoForm
    /\ content = NoContent
    /\ userAddedPosts = <<>>
    /\ userAddedPortfolioItems = <<>>
    /\ allComments = <<>>
    /\ backend = NoBackend
    /\ requests = <<>>
    /\ pageState = NoPage

\* the page is loaded again (a reload, or the return from the OAuth redirect):
\* storage stays, the provider starts over, responses to the old page are lost
Reload(h) ==
    /\ boot = "done"
    /\ hash' = h
    /\ user' = NoUser
    /\ isAuthenticated' = FALSE
    /\ loading' = TRUE
    /\ boot' = "unknown"
    /\ net' = [o \in Ops |-> Idle]
    /\ last' = NoEvent
    /\ RenderWith(location, NoError, NoForm)
    /\ UNCHANGED <<appVars, content, localStorage, lang, expired>>

\* initializeAuth up to "await AuthService.getMe()", or to its end without a token
BootStart ==
    /\ boot = "unknown"
    /\ LET parsed == bootstrapFromHash(localStorage, hash)
       IN /\ hash' = parsed.hash
          /\ localStorage' = parsed.ls
          /\ expired' = (expired /\ ~parsed.found)
          /\ IF HasStoredToken(parsed.ls)
             THEN /\ net' = [net EXCEPT !.me = Send(MeOptions, parsed.ls, lang)]
                  /\ boot' = "fetching"
                  /\ loading' = loading
                  /\ last' = NoEvent
             ELSE /\ net' = net
                  /\ boot' = "done"
                  /\ loading' = FALSE
                  /\ last' = Event("boot", 0, FALSE, None)
    /\ UNCHANGED <<appVars, content, user, isAuthenticated, lang>>
    /\ Render(location, error)

\* initializeAuth whose catch block never looks at the cached profile
BootFinishWithoutFallback(r) ==
    /\ boot = "fetching"
    /\ net.me.st = "sent"
    /\ LET ls == RequestStorage(localStorage, r)
       IN IF RequestOk(r)
          THEN /\ user' = r.body.user
               /\ isAuthenticated' = TRUE
               /\ localStorage' = setCurrentUser(ls, r.body.user)
          ELSE /\ localStorage' = ls
               /\ UNCHANGED <<user, isAuthenticated>>
    /\ expired' = (expired \/ (r.status = 401 /\ SentToken(net.me.config) # None))
    /\ last' = Event("boot", r.status, SentToken(net.me.config) # None, None)
    /\ loading' = FALSE
    /\ boot' = "done"
    /\ net' = [net EXCEPT !.me = Idle]
    /\ UNCHANGED <<appVars, content, hash, lang>>
    /\ Render(location, error)

\* the rest of initializeAuth, once /auth/me has answered r or failed
BootFinishWith(r) ==
    /\ boot = "fetching"
    /\ net.me.st = "sent"
    /\ LET ls == RequestStorage(localStorage, r)
           storedUser == getCurrentUser(ls)
       IN IF RequestOk(r)
          THEN /\ user' = r.body.user
               /\ isAuthenticated' = TRUE
               /\ localStorage' = setCurrentUser(ls, r.body.user)
          ELSE /\ localStorage' = ls
               /\ IF storedUser # NoUser
                  THEN user' = storedUser /\ isAuthenticated' = TRUE
                  ELSE UNCHANGED <<user, isAuthenticated>>
    /\ expired' = (expired \/ (r.status = 401 /\ SentToken(net.me.config) # None))
    /\ last' = Event("boot", r.status, SentToken(net.me.config) # None, None)
    /\ loading' = FALSE
    /\ boot' = "done"
    /\ net' = [net EXCEPT !.me = Idle]
    /\ UNCHANGED <<appVars, content, hash, lang>>
    /\ Render(location, error)

BootFinish == \E r \in Answers("me") : BootFinishWith(r)

\* LoginPage.handleSubmit -> AuthProvider.login -> AuthService.login, to the await
LoginSubmit(username, password) ==
    /\ boot = "done"
    /\ location = "/login"
    /\ net.login.st = "idle"
    /\ InFlight < MaxInFlight
    /\ loading' = TRUE
    /\ net' = [net EXCEPT !.login = Send(LoginOptions(username, password),
                                         localStorage, lang)]
    /\ last' = NoEvent
    /\ UNCHANGED <<appVars, content, localStorage, user, isAuthenticated, boot, hash, lang, expired>>
    /\ Render(location, NoError)

\* login that stores the tokens and the profile but leaves setUser out
LoginFinishWithoutSetUser(r) ==
    /\ net.login.st = "sent"
    /\ LET ls == RequestStorage(localStorage, r)
       IN IF RequestOk(r)
          THEN /\ localStorage' = setCurrentUser(StoreTokens(ls, r.body), r.body.user)
               /\ user' = user
               /\ isAuthenticated' = TRUE
               /\ expired' = FALSE
               /\ Render("/", error)
          ELSE /\ localStorage' = ls
               /\ UNCHANGED <<user, isAuthenticated>>
               /\ expired' = (expired \/ (r.status = 401 /\ SentToken(net.login.config) # None))
               /\ Render(location, LoginErrorShown(r, lang))
    /\ last' = Returns(Event("login", r.status, SentToken(net.login.config) # None,
                             net.login.config.body.username),
                       LoginReturn(r), r.body)
    /\ loading' = FALSE
    /\ net' = [net EXCEPT !.login = Idle]
    /\ UNCHANGED <<appVars, content, boot, hash, lang>>

\* the rest of login once /auth/login has answered r or failed; on success
\* LoginPage.handleSubmit goes to "/"
LoginFinishWith(r) ==
    /\ net.login.st = "sent"
    /\ LET ls == RequestStorage(localStorage, r)
       IN IF RequestOk(r)
          THEN /\ localStorage' = setCurrentUser(StoreTokens(ls, r.body), r.body.user)
               /\ user' = r.body.user
               /\ isAuthenticated' = TRUE
               /\ expired' = FALSE
               /\ Render("/", error)
          ELSE /\ localStorage' = ls
               /\ UNCHANGED <<user, isAuthenticated>>
               /\ expired' = (expired \/ (r.status = 401 /\ SentToken(net.login.config) # None))
               /\ Render(location, LoginErrorShown(r, lang))
    /\ last' = Returns(Event("login", r.status, SentToken(net.login.config) # None,
                             net.login.config.body.username),
                       LoginReturn(r), r.body)
    /\ loading' = FALSE
    /\ net' = [net EXCEPT !.login = Idle]
    /\ UNCHANGED <<appVars, content, boot, hash, lang>>

LoginFinish == \E r \in Answers("login") : LoginFinishWith(r)

\* the Sidebar's logout button -> AuthProvider.logout -> AuthService.logout, to the await
LogoutClick ==
    /\ boot = "done"
    /\ isAuthenticated
    /\ net.logout.st = "idle"
    /\ InFlight < MaxInFlight
    /\ loading' = TRUE
    /\ net' = [net EXCEPT !.logout = Send(LogoutOptions(localStorage), localStorage, lang)]
    /\ last' = NoEvent
    /\ UNCHANGED <<appVars, content, localStorage, user, isAuthenticated, boot, hash, lang, expired>>
    /\ Render(location, error)

\* the catch and finally blocks of AuthService.logout and AuthProvider.logout,
\* then App.handleLogout, once /auth/logout has answered r or failed
LogoutFinishWith(r) ==
    /\ net.logout.st = "sent"
    /\ localStorage' = ClearAuthStorage(RequestStorage(localStorage, r))
    /\ user' = NoUser
    /\ isAuthenticated' = FALSE
    /\ loading' = FALSE
    /\ expired' = (expired \/ (r.status = 401 /\ SentToken(net.logout.config) # None))
    /\ last' = Event("logout", r.status, SentToken(net.logout.config) # None, None)
    /\ net' = [net EXCEPT !.logout = Idle]
    /\ pageState' = NoPage
    /\ content' = NoContent
    /\ UNCHANGED <<userAddedPosts, userAddedPortfolioItems, allComments, backend, requests,
                   boot, hash, lang>>
    /\ Render("/", error)

LogoutFinish == \E r \in Answers("logout") : LogoutFinishWith(r)

\* any content request (ApiService.getPosts, deletePost, addComment, ...)
ApiCall ==
    /\ boot = "done"
    /\ net.api.st = "idle"
    /\ InFlight < MaxInFlight
    /\ net' = [net EXCEPT !.api = Send(ContentOptions, localStorage, lang)]
    /\ last' = NoEvent
    /\ UNCHANGED <<appVars, content, localStorage, user, isAuthenticated, loading, boot, hash, lang,
                   expired>>
    /\ Render(location, error)

ApiFinishWith(r) ==
    /\ net.api.st = "sent"
    /\ localStorage' = RequestStorage(localStorage, r)
    /\ expired' = (expired \/ (r.status = 401 /\ SentToken(net.api.config) # None))
    /\ last' = Event("api", r.status, SentToken(net.api.config) # None, None)
    /\ net' = [net EXCEPT !.api = Idle]
    /\ UNCHANGED <<appVars, content, user, isAuthenticated, loading, boot, hash, lang>>
    /\ Render(location, error)

ApiFinish == \E r \in Answers("api") : ApiFinishWith(r)

\* AuthProvider.refreshUser
RefreshUser ==
    /\ boot = "done"
    /\ LET storedUser == getCurrentUser(localStorage)
       IN IF storedUser # NoUser
          THEN user' = storedUser /\ isAuthenticated' = TRUE
          ELSE UNCHANGED <<user, isAuthenticated>>
    /\ last' = Event("refreshUser", 0, FALSE, None)
    /\ UNCHANGED <<appVars, content, localStorage, loading, boot, hash, lang, net, expired>>
    /\ Render(location, error)

\* AuthProvider.clearError, as LoginPage.handleInputChange calls it
ClearError ==
    /\ boot = "done"
    /\ location \in AuthPages
    /\ error # NoError
    /\ last' = NoEvent
    /\ UNCHANGED <<appVars, content, localStorage, user, isAuthenticated, loading, boot, hash, lang, net,
                   expired>>
    /\ Render(location, NoError)

\* App.navigateTo, a <Link>, or a path typed into the address bar
Navigate(p) ==
    /\ boot = "done"
    /\ last' = NoEvent
    /\ UNCHANGED <<appVars, content, localStorage, user, isAuthenticated, loading, boot, hash, lang, net,
                   expired>>
    /\ Render(p, error)

\* LanguageSwitcher.toggleLanguage / Sidebar.toggleLanguage
ToggleLanguage ==
    /\ boot = "done"
    /\ lang' = IF lang = "en" THEN "zh-Hant" ELSE "en"
    /\ last' = NoEvent
    /\ content' = Rendered(content, lang')
    /\ UNCHANGED <<appVars, localStorage, user, isAuthenticated, loading, boot, hash, net,
                   expired>>
    /\ Render(location, error)

Next ==
    \/ \E h \in Hashes : Reload(h)
    \/ BootStart
    \/ BootFinish
    \/ \E c \in LoginInputs : LoginSubmit(c.username, c.password)
    \/ LoginFinish
    \/ LogoutClick
    \/ LogoutFinish
    \/ ApiCall
    \/ ApiFinish
    \/ RefreshUser
    \/ ClearError
    \/ \E p \in CorePaths : Navigate(p)
    \/ ToggleLanguage

Spec == Init /\ [][Next]_vars

\* the transport answers every request or fails it, and a handler that can
\* run does run
FairSpec == Spec /\ WF_vars(BootStart) /\ WF_vars(BootFinish)

-----------------------------------------------------------------------------
(* The routes: every account and every route of App, one language, no      *)
(* fragment and no rejected login.                                         *)

RouteInit ==
    /\ Init
    /\ hash = <<>>
    /\ lang = "en"

RouteNext ==
    \/ Reload(<<>>)
    \/ BootStart
    \/ BootFinish
    \/ \E c \in GoodLogins : LoginSubmit(c.username, c.password)
    \/ LoginFinish
    \/ LogoutClick
    \/ LogoutFinish
    \/ ApiCall
    \/ ApiFinish
    \/ RefreshUser
    \/ ClearError
    \/ \E p \in Paths : Navigate(p)

RouteSpec == RouteInit /\ [][RouteNext]_vars

-----------------------------------------------------------------------------
(* Properties of the session (specification Spec unless said otherwise)    *)

\* C1: once logout has run, whether /auth/logout answered 2xx, answered an
\* error status or never answered, browser storage holds no access token, no
\* refresh token and no cached profile, and the session is Anonymous
\* (user = null, isAuthenticated = false).
C1_LogoutClearsSession ==
    last.op = "logout" =>
        /\ localStorage.authToken = None
        /\ localStorage.refreshToken = None
        /\ localStorage.userProfile = NoUser
        /\ user = NoUser
        /\ ~isAuthenticated

\* logout has just run after the request failed in the network
C1_LogoutAfterNetworkFailure == last.op = "logout" /\ last.status = 0

\* C2: whenever the backend has rejected a login, whatever message it sent and
\* whatever the UI language, the session error is the generic
\* invalid-username-or-password message.
C2_RejectedLoginShowsGenericError ==
    (last.op = "login" /\ last.status \in ErrorStatuses) => error = MsgBadCredentials

\* C3 as claimed: after a request that carried an access token has met HTTP
\* 401, storage holds neither the access token nor the refresh token.
C3_TokenStoreEmptyAfter401 ==
    (last.status = 401 /\ last.withToken) =>
        (localStorage.authToken = None /\ localStorage.refreshToken = None)

\* C3 as amended: a handler that ends with HTTP 401 for a request that carried
\* an access token leaves no access token in storage, and, unless it is
\* logout with its own cleanup, leaves the refresh token as it was.
C3_AccessTokenRemovedAfter401 ==
    [][(last'.status = 401 /\ last'.withToken) =>
          /\ localStorage'.authToken = None
          /\ last'.op # "logout" => localStorage'.refreshToken = localStorage.refreshToken]_vars

\* a content request sent with a token has met 401 and the refresh token is
\* still stored
C3_RefreshTokenLeftAfter401 ==
    /\ last.op = "api"
    /\ last.status = 401
    /\ last.withToken
    /\ localStorage.authToken = None
    /\ localStorage.refreshToken # None

\* C4: from a 401 on a request that carried an access token until the next
\* successful login, AuthService.isAuthenticated() is false and so is the
\* isAuthenticated flag of the session, whatever runs in between.
C4_NotAuthenticatedAfter401 ==
    expired => (~HasStoredToken(localStorage) /\ ~isAuthenticated)

\* C5: every request under way that was built while an access token was
\* stored carries Authorization: Bearer <that token>.
C5_EveryRequestCarriesBearer ==
    \A o \in Ops :
        (net[o].st = "sent" /\ net[o].tok # None) =>
            /\ "Authorization" \in DOMAIN net[o].config.headers
            /\ net[o].config.headers["Authorization"] = Bearer(net[o].tok)

\* C6: when login has returned for credentials the backend accepted, the
\* session is authenticated and its user carries the submitted username.
C6_LoginReportsSubmittedUser ==
    (last.op = "login" /\ last.status = 200) =>
        (isAuthenticated /\ user.username = last.arg)

\* a login as boss has just succeeded
C6_LoginSucceeded ==
    last.op = "login" /\ last.status = 200 /\ last.arg = "boss" /\ user = AccountOf("boss")

\* C7: the first step of the bootstrap stores token=T and refreshToken=R of
\* the fragment and strips the fragment; whenever it has stored a parameter of
\* the fragment it has stripped the fragment.
C7_FragmentStoredAndStripped ==
    [][BootStart =>
          LET T == ParamGet(hash, "token")
              R == ParamGet(hash, "refreshToken")
          IN /\ (T # None /\ R # None) =>
                   /\ localStorage'.authToken = T
                   /\ localStorage'.refreshToken = R
                   /\ hash' = <<>>
             /\ (T # None \/ R # None) => hash' = <<>>]_vars

\* C8 (specification FairSpec): every bootstrap ends with loading = false, and
\* it ends Authenticated with the fetched user when a token was stored and
\* /auth/me succeeded, Authenticated with the cached profile when /auth/me
\* failed and a profile was cached, Anonymous when /auth/me failed and none
\* was cached, and Anonymous when no token was stored.
C8_BootstrapEnds ==
    /\ [][(BootStart /\ boot' = "done") =>
             (~loading' /\ ~isAuthenticated' /\ user' = NoUser)]_vars
    /\ [][\A r \in Answers("me") :
             BootFinishWith(r) =>
                 /\ boot' = "done"
                 /\ ~loading'
                 /\ IF r.status = 200
                    THEN isAuthenticated' /\ user' = r.body.user
                    ELSE IF getCurrentUser(localStorage) # NoUser
                    THEN isAuthenticated' /\ user' = getCurrentUser(localStorage)
                    ELSE ~isAuthenticated' /\ user' = NoUser]_vars
    /\ (boot # "done") ~> (boot = "done" /\ ~loading)

\* a bootstrap has ended on the cached profile after /auth/me answered 401
C8_BootstrapFellBackToCache ==
    /\ last.op = "boot"
    /\ last.status = 401
    /\ boot = "done"
    /\ isAuthenticated
    /\ user = getCurrentUser(localStorage)

-----------------------------------------------------------------------------
(* Properties of the Role Gate and the route guards (specification RouteSpec) *)

\* C9 (specification RouteSpec): in every state isSuperUser is true exactly
\* when the session is authenticated and the user's role is ADMIN or
\* SUPER_USER or the user's username is "admin".
C9_RoleGate ==
    isSuperUser <=>
        (isAuthenticated /\ (user.role \in {"ADMIN", "SUPER_USER"} \/ user.username = "admin"))

\* the user named admin, whose role is USER, is signed in and is a super user
C9_AdminByName ==
    isAuthenticated /\ user.role = "USER" /\ user.username = "admin" /\ isSuperUser

\* the routes under requireAuthenticated and those under requireSuperUser
AuthenticatedPaths ==
    {"/account", "/blog/add", "/blog/edit/:postId", "/manage/photos", "/manage/posts"}
SuperUserPaths == {"/blog/add", "/blog/edit/:postId", "/manage/photos", "/manage/posts"}

\* C10 (specification RouteSpec): the page on screen is never that of a route
\* under requireAuthenticated while the session is Anonymous, nor that of a
\* route under requireSuperUser while isSuperUser is false; going to a route
\* under requireAuthenticated while Anonymous ends on /login, and going to a
\* route under requireSuperUser while authenticated with isSuperUser false
\* ends on /.
C10_GuardedRoutes ==
    /\ [](location \in AuthenticatedPaths => isAuthenticated)
    /\ [](location \in SuperUserPaths => isSuperUser)
    /\ [](RouteElement(location, isAuthenticated, isSuperUser).kind = "page")
    /\ [][\A p \in Paths :
             Navigate(p) =>
                 /\ (p \in AuthenticatedPaths /\ ~isAuthenticated) => location' = "/login"
                 /\ (p \in SuperUserPaths /\ isAuthenticated /\ ~isSuperUser) =>
                        location' = "/"]_vars

\* the user named admin has passed both guards and is on a management page
C10_ManagementPageShown ==
    location = "/manage/posts" /\ isSuperUser /\ user.username = "admin"


-----------------------------------------------------------------------------
(* Registration: RegisterPage.handleSubmit -> AuthProvider.register ->     *)
(* AuthService.register.  State updates made after an await are batched    *)
(* into one render, and the effects of that render run after it.           *)

RegisterOptions(d) == [method |-> "POST", body |-> d]

\* /用戶名.*已存在|Username already exists/i
UsernameTakenRegex ==
    LowerAlts(<< <<Lit(MsgYongHuMing), AnyRun, Lit(MsgYiCunZai)>>,
                 <<Lit(WordUsernameAlreadyExists)>> >>)

\* /郵箱.*已被使用|郵箱已存在|Email already exists/i
EmailTakenRegex ==
    LowerAlts(<< <<Lit(MsgYouXiang), AnyRun, Lit(MsgYiBeiShiYong)>>,
                 <<Lit(MsgYouXiangYiCunZai)>>,
                 <<Lit(WordEmailAlreadyExists)>> >>)

\* RegisterPage's authError effect on the slots handleSubmit has cleared
FieldErrors(msg) ==
    IF RegexTestI(UsernameTakenRegex, msg) THEN [NoForm EXCEPT !.usernameError = msg]
    ELSE IF RegexTestI(EmailTakenRegex, msg) THEN [NoForm EXCEPT !.emailError = msg]
    ELSE [NoForm EXCEPT !.error = msg]

\* every way /auth/register can fail, with the session error and the slots
\* shown for each, evaluated once
RegisterFailures ==
    {NetworkFailure} \cup
    {Reject(s, m) : s \in ErrorStatuses,
                    m \in UsernameTakenMessages \cup EmailTakenMessages
                          \cup OtherRegisterMessages}
RegisterErrorTable ==
    {<<r, l, RequestError(r, l), FieldErrors(RequestError(r, l))>> :
        r \in RegisterFailures, l \in Langs}
RegisterErrorShown(r, language) ==
    (CHOOSE t \in RegisterErrorTable : t[1] = r /\ t[2] = language)[3]
RegisterFormShown(r, language) ==
    (CHOOSE t \in RegisterErrorTable : t[1] = r /\ t[2] = language)[4]

\* handleSubmit without its comparison of password and confirmPassword
RegisterSubmitUnchecked(d) ==
    /\ boot = "done"
    /\ location = "/register"
    /\ net.register.st = "idle"
    /\ InFlight < MaxInFlight
    /\ UNCHANGED <<appVars, content, localStorage, user, isAuthenticated, boot, hash, lang, expired>>
    /\ IF TextLength[d.username] < 3
       THEN /\ last' = Event("submit", 0, FALSE, d)
            /\ UNCHANGED <<net, loading>>
            /\ RenderWith(location, error, [NoForm EXCEPT !.usernameError = UsernameTooShortError])
       ELSE /\ last' = Event("submit", 0, FALSE, d)
            /\ loading' = TRUE
            /\ net' = [net EXCEPT !.register = Send(RegisterOptions(d), localStorage, lang)]
            /\ RenderWith(location, NoError, NoForm)

\* RegisterPage.handleSubmit to its return or, through AuthProvider.register
\* and AuthService.register, to the await
RegisterSubmit(d) ==
    /\ boot = "done"
    /\ location = "/register"
    /\ net.register.st = "idle"
    /\ InFlight < MaxInFlight
    /\ UNCHANGED <<appVars, content, localStorage, user, isAuthenticated, boot, hash, lang, expired>>
    /\ IF TextLength[d.username] < 3
       THEN /\ last' = Event("submit", 0, FALSE, d)
            /\ UNCHANGED <<net, loading>>
            /\ RenderWith(location, error, [NoForm EXCEPT !.usernameError = UsernameTooShortError])
       ELSE IF d.password # d.confirmPassword
       THEN /\ last' = Event("submit", 0, FALSE, d)
            /\ UNCHANGED <<net, loading>>
            /\ RenderWith(location, error, [NoForm EXCEPT !.error = PasswordsDoNotMatchError])
       ELSE /\ last' = Event("submit", 0, FALSE, d)
            /\ loading' = TRUE
            /\ net' = [net EXCEPT !.register = Send(RegisterOptions(d), localStorage, lang)]
            /\ RenderWith(location, NoError, NoForm)

\* the rest of register once /auth/register has answered r or failed.  On
\* success handleSubmit assigns window.location.href = '/': the page is loaded
\* again at "/" and the provider starts over
RegisterFinishWith(r) ==
    /\ net.register.st = "sent"
    /\ LET ls == RequestStorage(localStorage, r)
       IN IF RequestOk(r)
          THEN /\ localStorage' = setCurrentUser(StoreTokens(ls, r.body), r.body.user)
               /\ last' = Returns(Event("register", r.status,
                                        SentToken(net.register.config) # None,
                                        net.register.config.body), "true", r.body)
               /\ user' = NoUser
               /\ isAuthenticated' = FALSE
               /\ loading' = TRUE
               /\ boot' = "unknown"
               /\ hash' = <<>>
               /\ net' = [o \in Ops |-> Idle]
               /\ expired' = FALSE
               /\ RenderWith("/", NoError, NoForm)
          ELSE /\ localStorage' = ls
               /\ last' = Returns(Event("register", r.status,
                                        SentToken(net.register.config) # None,
                                        net.register.config.body), "false", r.body)
               /\ loading' = FALSE
               /\ net' = [net EXCEPT !.register = Idle]
               /\ expired' = (expired \/ (r.status = 401
                                          /\ SentToken(net.register.config) # None))
               /\ UNCHANGED <<user, isAuthenticated, boot, hash>>
               /\ RenderWith(location, RegisterErrorShown(r, lang),
                             RegisterFormShown(r, lang))
    /\ UNCHANGED <<appVars, content, lang>>

RegisterFinish == \E r \in Answers("register") : RegisterFinishWith(r)

\* the pages a visitor who registers walks
RegisterPaths == {"/", "/login", "/register"}

RegisterInit ==
    /\ Init
    /\ hash = <<>>

RegisterNext ==
    \/ Reload(<<>>)
    \/ BootStart
    \/ BootFinish
    \/ \E d \in RegisterInputs : RegisterSubmit(d)
    \/ RegisterFinish
    \/ LoginSubmit("alice", CorrectPassword)
    \/ LoginFinish
    \/ LogoutClick
    \/ LogoutFinish
    \/ ClearError
    \/ \E p \in RegisterPaths : Navigate(p)
    \/ ToggleLanguage

RegisterSpec == RegisterInit /\ [][RegisterNext]_vars

-----------------------------------------------------------------------------
(* AuthService.refreshToken.  Nothing in the application calls it; it is   *)
(* the operation a caller is given for a rejected access token, so here a  *)
(* caller may start it at any time after initializeAuth.                   *)

RefreshOptions(rt) == [method |-> "POST", body |-> [refreshToken |-> rt]]

\* refreshToken: "if (response.token)" and its two setItem calls
StoreRefreshed(ls, response) ==
    IF response.token # None
    THEN [ls EXCEPT !.authToken = response.token, !.refreshToken = response.refreshToken]
    ELSE ls

\* refreshToken up to its await; without a stored refresh token it throws at
\* once, and its catch block starts AuthService.logout without awaiting it
RefreshStart ==
    /\ boot = "done"
    /\ net.refresh.st = "idle"
    /\ net.forced.st = "idle"
    /\ InFlight < MaxInFlight
    /\ IF localStorage.refreshToken = None
       THEN /\ net' = [net EXCEPT !.forced = Send(LogoutOptions(localStorage),
                                                  localStorage, lang)]
            /\ last' = Returns(Event("refresh", 0, FALSE, None), "throw", NoBody)
       ELSE /\ net' = [net EXCEPT !.refresh = Send(RefreshOptions(localStorage.refreshToken),
                                                   localStorage, lang)]
            /\ last' = NoEvent
    /\ UNCHANGED <<appVars, content, localStorage, user, isAuthenticated, loading, boot, hash, lang,
                   expired>>
    /\ Render(location, error)

\* the rest of refreshToken once /auth/refresh has answered r or failed; its
\* catch block starts AuthService.logout, does not await it, and throws
RefreshFinishWith(r) ==
    /\ net.refresh.st = "sent"
    /\ LET ls == RequestStorage(localStorage, r)
       IN IF RequestOk(r)
          THEN /\ localStorage' = StoreRefreshed(ls, r.body)
               /\ net' = [net EXCEPT !.refresh = Idle]
               /\ last' = Returns(Event("refresh", r.status,
                                        SentToken(net.refresh.config) # None,
                                        net.refresh.config.body.refreshToken),
                                  "response", r.body)
          ELSE /\ localStorage' = ls
               /\ net' = [net EXCEPT !.refresh = Idle,
                                     !.forced = Send(LogoutOptions(ls), ls, lang)]
               /\ last' = Returns(Event("refresh", r.status,
                                        SentToken(net.refresh.config) # None,
                                        net.refresh.config.body.refreshToken),
                                  "throw", r.body)
    /\ expired' = (expired \/ (r.status = 401 /\ SentToken(net.refresh.config) # None))
    /\ UNCHANGED <<appVars, content, user, isAuthenticated, loading, boot, hash, lang>>
    /\ Render(location, error)

RefreshFinish == \E r \in Answers("refresh") : RefreshFinishWith(r)

\* the catch and finally blocks of the AuthService.logout that refreshToken
\* started, once /auth/logout has answered r or failed; arg is the
\* Refresh-Token header the request carried
ForcedLogoutFinishWith(r) ==
    /\ net.forced.st = "sent"
    /\ localStorage' = ClearAuthStorage(RequestStorage(localStorage, r))
    /\ expired' = (expired \/ (r.status = 401 /\ SentToken(net.forced.config) # None))
    /\ last' = Event("forced", r.status, SentToken(net.forced.config) # None,
                     net.forced.config.headers["Refresh-Token"])
    /\ net' = [net EXCEPT !.forced = Idle]
    /\ UNCHANGED <<appVars, content, user, isAuthenticated, loading, boot, hash, lang>>
    /\ Render(location, error)

ForcedLogoutFinish == \E r \in Answers("forced") : ForcedLogoutFinishWith(r)

\* the session with one account, one language and the token exchange
RefreshInit ==
    /\ Init
    /\ lang = "en"

RefreshNext ==
    \/ \E h \in Hashes : Reload(h)
    \/ BootStart
    \/ BootFinish
    \/ LoginSubmit("alice", CorrectPassword)
    \/ LoginFinish
    \/ LogoutClick
    \/ LogoutFinish
    \/ ApiCall
    \/ ApiFinish
    \/ RefreshStart
    \/ RefreshFinish
    \/ ForcedLogoutFinish

RefreshSpec == RefreshInit /\ [][RefreshNext]_vars

\* the transport answers every request or fails it and the handler waiting for
\* the answer then runs; what the user or a caller starts is left to them
RefreshFairSpec ==
    /\ RefreshSpec
    /\ WF_vars(BootStart)
    /\ WF_vars(BootFinish)
    /\ WF_vars(LoginFinish)
    /\ WF_vars(LogoutFinish)
    /\ WF_vars(ApiFinish)
    /\ WF_vars(RefreshFinish)
    /\ WF_vars(ForcedLogoutFinish)

-----------------------------------------------------------------------------
(* The content pages: a page is opened on a collection and its controls    *)
(* are used.                                                               *)

\* how many items a collection drawn item by item holds at most
MaxItems == 3
\* the pages and the page sizes the pagination controls are set to
MaxPage == 3
MaxPageSize == 2

\* the sequences without repetition of at most n elements of S
Arrangements(S, n) ==
    {s \in UNION {[1..m -> S] : m \in 0..n} : \A i, j \in DOMAIN s : s[i] = s[j] => i = j}

Digits == <<"1", "2", "3", "4", "5", "6", "7", "8", "9">>
PostList == <<ItemA, ItemB, ItemC, ItemD>>

\* a collection one item longer than a page of CategoryArchivePage
BigCollection ==
    [i \in 1..(ArchiveItemsPerPage + 1) |->
        [PostList[((i - 1) % Len(PostList)) + 1] EXCEPT !.id = <<"b", Digits[i]>>]]

CollectionsOf(view) ==
    CASE view = "posts" -> Arrangements(Posts, MaxItems)
      [] view = "archive" -> Arrangements(Posts, MaxItems) \cup {BigCollection}
      [] OTHER -> Arrangements(PortfolioItems, MaxItems)

TitleKeys == {blogCategoryDefinitions[d].titleKey : d \in DOMAIN blogCategoryDefinitions}
CategoryKeys == {"photography", "travel", "tech"}

\* the values the category control of each page offers
CategoriesOf(view) ==
    CASE view = "posts" -> {"all"} \cup TitleKeys
      [] view = "archive" -> {FilterAll} \cup TitleKeys
      [] view = "photos" -> {"all"} \cup CategoryKeys
      [] OTHER -> {FilterAll} \cup CategoryKeys

\* what a visitor types into the search box of CategorySidebar
SearchTerms == {<<>>, <<" ">>, <<"a", "b">>, <<"b", "C">>}

\* the page as it mounts: useState('date-desc'), useState('all'), useState(1), ...
Opened(view, items) ==
    [NoContent EXCEPT !.view = view, !.items = items,
                      !.category = IF view \in {"posts", "photos"} THEN "all" ELSE FilterAll,
                      !.sortOrder = "date-desc"]

ContentInit ==
    /\ localStorage = EmptyStorage
    /\ user = NoUser
    /\ isAuthenticated = FALSE
    /\ loading = FALSE
    /\ error = NoError
    /\ boot = "done"
    /\ hash = <<>>
    /\ isSuperUser = FALSE
    /\ location = "/"
    /\ lang \in Langs
    /\ net = [o \in Ops |-> Idle]
    /\ expired = FALSE
    /\ last = NoEvent
    /\ form = NoForm
    /\ userAddedPosts = <<>>
    /\ userAddedPortfolioItems = <<>>
    /\ allComments = <<>>
    /\ backend = NoBackend
    /\ requests = <<>>
    /\ pageState = NoPage
    /\ content \in UNION {{Rendered(Opened(v, xs), lang) : xs \in CollectionsOf(v)} : v \in Views}

\* setSortOrder, setSortKey; CategoryArchivePage.handleSortChange also goes to page 1
ChangeSortOrder(k) ==
    /\ content.view # "none"
    /\ k # content.sortOrder
    /\ content' = Rendered([content EXCEPT !.sortOrder = k,
                                           !.currentPage = IF content.view = "archive"
                                                           THEN 1 ELSE @], lang)
    /\ UNCHANGED <<appVars, localStorage, user, isAuthenticated, loading, error, boot, hash,
                   location, isSuperUser, lang, net, expired, last, form>>

\* setFilterCategory, PortfolioPage.handleFilterChange; for CategoryArchivePage
\* the link to another category, which carries no page and no sort parameter
ChangeCategory(c) ==
    /\ content.view # "none"
    /\ c \in CategoriesOf(content.view)
    /\ c # content.category
    /\ content' = Rendered(IF content.view = "archive"
                           THEN [content EXCEPT !.category = c, !.currentPage = 1,
                                                !.sortOrder = "date-desc"]
                           ELSE [content EXCEPT !.category = c], lang)
    /\ UNCHANGED <<appVars, localStorage, user, isAuthenticated, loading, error, boot, hash,
                   location, isSuperUser, lang, net, expired, last, form>>

\* setCurrentPage, CategoryArchivePage.handlePageChange
ChangePage(p) ==
    /\ content.view \in {"posts", "photos", "archive"}
    /\ p # content.currentPage
    /\ content' = Rendered([content EXCEPT !.currentPage = p], lang)
    /\ UNCHANGED <<appVars, localStorage, user, isAuthenticated, loading, error, boot, hash,
                   location, isSuperUser, lang, net, expired, last, form>>

\* setItemsPerPage
ChangeItemsPerPage(n) ==
    /\ content.view \in {"posts", "photos"}
    /\ n # content.itemsPerPage
    /\ content' = Rendered([content EXCEPT !.itemsPerPage = n], lang)
    /\ UNCHANGED <<appVars, localStorage, user, isAuthenticated, loading, error, boot, hash,
                   location, isSuperUser, lang, net, expired, last, form>>

\* CategorySidebar's onSearchChange: setSearchTerm(term); handlePageChange(1)
Search(term) ==
    /\ content.view = "archive"
    /\ term # content.searchTerm
    /\ content' = Rendered([content EXCEPT !.searchTerm = term, !.currentPage = 1], lang)
    /\ UNCHANGED <<appVars, localStorage, user, isAuthenticated, loading, error, boot, hash,
                   location, isSuperUser, lang, net, expired, last, form>>

ContentNext ==
    \/ \E k \in SortOrders : ChangeSortOrder(k)
    \/ \E c \in {"all", FilterAll} \cup TitleKeys \cup CategoryKeys : ChangeCategory(c)
    \/ \E p \in 1..MaxPage : ChangePage(p)
    \/ \E n \in 1..MaxPageSize : ChangeItemsPerPage(n)
    \/ \E term \in SearchTerms : Search(term)
    \/ ToggleLanguage

ContentSpec == ContentInit /\ [][ContentNext]_vars
-----------------------------------------------------------------------------
(* App's content handlers and the pages that call them.  The session is    *)
(* the one a login has left; the collections are the ones the content API  *)
(* has delivered.                                                          *)

\* how many content handlers may be at an await together
MaxRequests == 1

\* PostManagementPage, PhotoManagementPage: useState(10) of itemsPerPage
DefaultItemsPerPage == 10

\* useState<string | null>(null) of itemToDelete
NoId == <<>>

\* the session a login as account name has left, shown on path
SignedIn(name, path) ==
    /\ localStorage = setCurrentUser(StoreTokens(EmptyStorage,
                                                 [token |-> IssuedAccessToken[name],
                                                  refreshToken |-> IssuedRefreshToken[name],
                                                  user |-> AccountOf(name)]),
                                     AccountOf(name))
    /\ user = AccountOf(name)
    /\ isAuthenticated = TRUE
    /\ isSuperUser = IsSuperUserOf(TRUE, AccountOf(name))
    /\ loading = FALSE
    /\ error = NoError
    /\ boot = "done"
    /\ hash = <<>>
    /\ location = Settle(path, TRUE, IsSuperUserOf(TRUE, AccountOf(name)))
    /\ net = [o \in Ops |-> Idle]
    /\ expired = FALSE
    /\ last = NoEvent
    /\ form = NoForm

\* the ids of the records of a list, as a set
IdSetOf(items) == {items[i].id : i \in DOMAIN items}

\* items.map(item => item.id)
IdsOf(items) == [i \in DOMAIN items |-> items[i].id]

\* ids.includes(id)
IncludesId(ids, id) == \E i \in DOMAIN ids : ids[i] = id

\* p.filter(item => !ids.includes(item.id))
WithoutIds(items, ids) == Filter(items, LAMBDA x : ~IncludesId(ids, x.id))

\* a sequence without its element at index c
RemoveAt(s, c) == SubSeq(s, 1, c - 1) \o SubSeq(s, c + 1, Len(s))

\* the collection a delete handler works on: handleDeleteBlogPosts on the
\* posts, handleDeletePortfolioItems on the portfolio items
Collections == {"posts", "portfolio"}

\* what the backend answers to DELETE of id: done, or failed; not found for
\* an id it does not hold
DeleteStatuses(kind, id) == IF id \in backend[kind] THEN {200, 500} ELSE {404}

\* a delete handler that sends its requests for any caller
DeleteCallUnguarded(kind, ids) ==
    IF ids = <<>> THEN requests
    ELSE Append(requests, [op |-> kind, ids |-> ids,
                           answers |-> [i \in DOMAIN ids |-> "pending"],
                           settled |-> FALSE])

\* App.handleDeleteBlogPosts / handleDeletePortfolioItems up to the await:
\* "if (!isSuperUser) return", then Promise.all sends one DELETE per id
DeleteCall(kind, ids) ==
    IF ~isSuperUser \/ ids = <<>> THEN requests
    ELSE Append(requests, [op |-> kind, ids |-> ids,
                           answers |-> [i \in DOMAIN ids |-> "pending"],
                           settled |-> FALSE])

\* the rest of a delete handler after one more answer: the catch block at the
\* first failure (alert, nothing removed), the filter once every DELETE has
\* been answered 200; answers that arrive after the catch change nothing here
DeleteSettled(call, items) ==
    IF call.settled THEN [settled |-> TRUE, applied |-> FALSE, items |-> items]
    ELSE IF \E i \in DOMAIN call.ids : call.answers[i] = "failed"
    THEN [settled |-> TRUE, applied |-> FALSE, items |-> items]
    ELSE IF \A i \in DOMAIN call.ids : call.answers[i] = "ok"
    THEN [settled |-> TRUE, applied |-> TRUE, items |-> WithoutIds(items, call.ids)]
    ELSE [settled |-> FALSE, applied |-> FALSE, items |-> items]

\* the comment-loading effect of App, which runs after every setUserAddedPosts:
\* one getCommentsByPost after the other, the first one sent at once; with no
\* post it is done at once
CommentsEffect(calls, posts) ==
    IF posts = <<>> THEN calls
    ELSE Append(calls, [op |-> "reload", ids |-> IdsOf(posts), results |-> <<>>,
                        overtaken |-> FALSE])

\* setAllComments(results) of a comment-loading effect that has no post to ask for
CommentsWithoutPosts(comments, posts) == IF posts = <<>> THEN <<>> ELSE comments

\* the content page showing the collection it is given as a prop
WithItems(c, posts, portfolioItems, language) ==
    IF c.view \in {"posts", "archive"}
    THEN Rendered([c EXCEPT !.items = posts], language)
    ELSE IF c.view \in {"photos", "portfolio"}
    THEN Rendered([c EXCEPT !.items = portfolioItems], language)
    ELSE c

\* itemsToDisplay: filteredItems.slice(0, displayCount)
itemsToDisplay(c, displayCount) ==
    IF c.view = "portfolio" THEN [c EXCEPT !.shown = Slice(c.processed, 0, displayCount)]
    ELSE c

\* the content page after App has changed a collection
Redisplayed(c, p, posts, portfolioItems, language) ==
    IF p.name = "/portfolio"
    THEN itemsToDisplay(WithItems(c, posts, portfolioItems, language), p.displayCount)
    ELSE WithItems(c, posts, portfolioItems, language)

\* the i-th DELETE of delete handler c is answered with status
DeleteAnswer(c, i, status) ==
    /\ c \in DOMAIN requests
    /\ requests[c].op \in Collections
    /\ i \in DOMAIN requests[c].ids
    /\ requests[c].answers[i] = "pending"
    /\ status \in DeleteStatuses(requests[c].op, requests[c].ids[i])
    /\ \E kind \in {requests[c].op},
          answered \in {[requests[c] EXCEPT
                            !.answers[i] = IF status = 200 THEN "ok" ELSE "failed"]} :
        \E outcome \in {DeleteSettled(answered,
                                      IF kind = "posts" THEN userAddedPosts
                                      ELSE userAddedPortfolioItems)} :
          /\ backend' = IF status = 200
                        THEN [backend EXCEPT ![kind] = @ \ {requests[c].ids[i]}]
                        ELSE backend
          /\ userAddedPosts' = IF kind = "posts" THEN outcome.items ELSE userAddedPosts
          /\ userAddedPortfolioItems' =
                 IF kind = "portfolio" THEN outcome.items ELSE userAddedPortfolioItems
          /\ \E rest \in {IF \A j \in DOMAIN answered.ids : answered.answers[j] # "pending"
                           THEN RemoveAt(requests, c)
                           ELSE [requests EXCEPT ![c] = [answered EXCEPT
                                                            !.settled = outcome.settled]]} :
                IF kind = "posts" /\ outcome.applied
                THEN /\ requests' = CommentsEffect(rest, outcome.items)
                     /\ allComments' = CommentsWithoutPosts(allComments, outcome.items)
                ELSE /\ requests' = rest
                     /\ allComments' = allComments
          /\ last' = Event(kind, status, TRUE, None)
    /\ localStorage' = RequestStorage(localStorage, [status |-> status])
    /\ content' = Redisplayed(content, pageState, userAddedPosts',
                            userAddedPortfolioItems', lang)
    /\ UNCHANGED <<pageState, user, isAuthenticated, loading, error, boot,
                   hash, location, isSuperUser, lang, net, expired, form>>

\* GET /comments/post/:postId
getCommentsByPost(comments, postId) == Filter(comments, LAMBDA c : c.postId = postId)

\* one getCommentsByPost of a comment-loading effect is answered; after the
\* last one setAllComments(results), after a failure setAllComments([]).  A
\* call that ends marks the calls started before it that are still running
ReloadAnswer(c, status) ==
    /\ c \in DOMAIN requests
    /\ requests[c].op = "reload"
    /\ status \in {200, 500}
    /\ \E results \in {requests[c].results
                          \o getCommentsByPost(backend.comments, Head(requests[c].ids))} :
          IF status = 200 /\ Tail(requests[c].ids) # <<>>
          THEN /\ requests' = [requests EXCEPT ![c].ids = Tail(@), ![c].results = results]
               /\ allComments' = allComments
               /\ last' = Event("getCommentsByPost", status, TRUE, None)
          ELSE /\ requests' = RemoveAt([i \in DOMAIN requests |->
                                           IF i < c /\ requests[i].op = "reload"
                                           THEN [requests[i] EXCEPT !.overtaken = TRUE]
                                           ELSE requests[i]], c)
               /\ allComments' = IF status = 200 THEN results ELSE <<>>
               /\ last' = Returns(Event("reload", status, TRUE, None),
                                  IF requests[c].overtaken THEN "overtaken" ELSE "current",
                                  NoBody)
    /\ localStorage' = RequestStorage(localStorage, [status |-> status])
    /\ UNCHANGED <<userAddedPosts, userAddedPortfolioItems, backend, pageState, content,
                   user, isAuthenticated, loading, error, boot,
                   hash, location, isSuperUser, lang, net, expired, form>>

-----------------------------------------------------------------------------
(* PostManagementPage and PhotoManagementPage: the selection and the       *)
(* delete modal.                                                           *)

ManagePaths == {"/manage/posts", "/manage/photos"}

\* the collection a management page deletes from
CollectionOf(path) == IF path = "/manage/posts" THEN "posts" ELSE "portfolio"

\* a management page as it mounts
ManagePage(path) ==
    [name |-> path, selectedIds |-> <<>>, itemToDelete |-> NoId,
     isDeleteModalOpen |-> FALSE]

\* handleSelectAll: the ids of the page shown, or nothing
handleSelectAll(checked) ==
    /\ pageState.name \in ManagePaths
    /\ ~pageState.isDeleteModalOpen
    /\ pageState' = [pageState EXCEPT
                        !.selectedIds = IF checked THEN IdsOf(content.shown) ELSE <<>>]
    /\ pageState' # pageState
    /\ last' = NoEvent
    /\ UNCHANGED <<userAddedPosts, userAddedPortfolioItems, allComments, backend, requests,
                   content, localStorage, user, isAuthenticated, loading, error, boot,
                   hash, location, isSuperUser, lang, net, expired, form>>

\* handleSelectOne, by a click on a row of the page shown
handleSelectOne(id) ==
    /\ pageState.name \in ManagePaths
    /\ ~pageState.isDeleteModalOpen
    /\ IncludesId(IdsOf(content.shown), id)
    /\ pageState' = [pageState EXCEPT
                        !.selectedIds = IF IncludesId(@, id)
                                        THEN Filter(@, LAMBDA x : x # id)
                                        ELSE Append(@, id)]
    /\ last' = NoEvent
    /\ UNCHANGED <<userAddedPosts, userAddedPortfolioItems, allComments, backend, requests,
                   content, localStorage, user, isAuthenticated, loading, error, boot,
                   hash, location, isSuperUser, lang, net, expired, form>>

\* openDeleteModal, by the trash button of a row
openDeleteModal(id) ==
    /\ pageState.name \in ManagePaths
    /\ ~pageState.isDeleteModalOpen
    /\ IncludesId(IdsOf(content.shown), id)
    /\ pageState' = [pageState EXCEPT !.itemToDelete = id, !.isDeleteModalOpen = TRUE]
    /\ last' = NoEvent
    /\ UNCHANGED <<userAddedPosts, userAddedPortfolioItems, allComments, backend, requests,
                   content, localStorage, user, isAuthenticated, loading, error, boot,
                   hash, location, isSuperUser, lang, net, expired, form>>

\* the delete button above the list, disabled while nothing is selected
OpenBulkDeleteModal ==
    /\ pageState.name \in ManagePaths
    /\ ~pageState.isDeleteModalOpen
    /\ pageState.selectedIds # <<>>
    /\ pageState' = [pageState EXCEPT !.itemToDelete = NoId, !.isDeleteModalOpen = TRUE]
    /\ last' = NoEvent
    /\ UNCHANGED <<userAddedPosts, userAddedPortfolioItems, allComments, backend, requests,
                   content, localStorage, user, isAuthenticated, loading, error, boot,
                   hash, location, isSuperUser, lang, net, expired, form>>

\* ConfirmationModal's onClose
CloseDeleteModal ==
    /\ pageState.name \in ManagePaths
    /\ pageState.isDeleteModalOpen
    /\ pageState' = [pageState EXCEPT !.isDeleteModalOpen = FALSE]
    /\ last' = NoEvent
    /\ UNCHANGED <<userAddedPosts, userAddedPortfolioItems, allComments, backend, requests,
                   content, localStorage, user, isAuthenticated, loading, error, boot,
                   hash, location, isSuperUser, lang, net, expired, form>>

\* handleConfirmDelete, the modal's onConfirm: the one item of the trash
\* button, or else the selection
handleConfirmDelete ==
    /\ pageState.name \in ManagePaths
    /\ pageState.isDeleteModalOpen
    /\ Len(requests) < MaxRequests
    /\ IF pageState.itemToDelete # NoId
       THEN /\ requests' = DeleteCall(CollectionOf(pageState.name),
                                      <<pageState.itemToDelete>>)
            /\ pageState' = [pageState EXCEPT !.itemToDelete = NoId,
                                              !.isDeleteModalOpen = FALSE]
            /\ last' = Event("handleConfirmDelete", 0, FALSE, "one")
       ELSE /\ requests' = DeleteCall(CollectionOf(pageState.name), pageState.selectedIds)
            /\ pageState' = [pageState EXCEPT !.selectedIds = <<>>,
                                              !.isDeleteModalOpen = FALSE]
            /\ last' = Event("handleConfirmDelete", 0, FALSE, "selected")
    /\ UNCHANGED <<userAddedPosts, userAddedPortfolioItems, allComments, backend,
                   content, localStorage, user, isAuthenticated, loading, error, boot,
                   hash, location, isSuperUser, lang, net, expired, form>>

\* the collections the content API has delivered to App
LoadedPosts == <<ItemA, ItemB>>
LoadedPortfolioItems == <<ItemA, ItemE>>

\* the backend that holds what App has loaded
BackendOf(posts, portfolioItems) ==
    [posts |-> {posts[i].id : i \in DOMAIN posts},
     portfolio |-> {portfolioItems[i].id : i \in DOMAIN portfolioItems},
     comments |-> <<>>, issued |-> 0]

\* a superuser on a management page, the content loaded
ManageInit ==
    /\ \E name \in {"admin", "carol"}, path \in ManagePaths :
          /\ SignedIn(name, path)
          /\ pageState = ManagePage(path)
          /\ content = Rendered([Opened(IF path = "/manage/posts" THEN "posts" ELSE "photos",
                                        IF path = "/manage/posts" THEN LoadedPosts
                                        ELSE LoadedPortfolioItems)
                                    EXCEPT !.itemsPerPage = DefaultItemsPerPage], "en")
    /\ lang = "en"
    /\ userAddedPosts = LoadedPosts
    /\ userAddedPortfolioItems = LoadedPortfolioItems
    /\ allComments = <<>>
    /\ backend = BackendOf(LoadedPosts, LoadedPortfolioItems)
    /\ requests = <<>>

ManageNext ==
    \/ \E checked \in BOOLEAN : handleSelectAll(checked)
    \/ \E x \in Posts \cup PortfolioItems : handleSelectOne(x.id)
    \/ \E x \in Posts \cup PortfolioItems : openDeleteModal(x.id)
    \/ OpenBulkDeleteModal
    \/ CloseDeleteModal
    \/ handleConfirmDelete
    \/ \E c \in 1..MaxRequests, i \in 1..Len(LoadedPosts), status \in {200, 404, 500} :
          DeleteAnswer(c, i, status)
    \/ \E c \in 1..MaxRequests, status \in {200, 500} : ReloadAnswer(c, status)

ManageSpec == ManageInit /\ [][ManageNext]_vars

-----------------------------------------------------------------------------
(* PortfolioPage: the infinite scroll, the filter and the delete mode.     *)

\* PortfolioPage: const ITEMS_TO_LOAD
ITEMS_TO_LOAD == 6

\* how many portfolio items App has loaded, and how many of them are of the
\* first category
ScrollLength == 14
TravelCount == 13

\* how many 300 ms load timers may be pending together
MaxTimers == 2

\* the id of the n-th loaded portfolio item
ScrollId(n) ==
    <<"s">> \o (IF n >= 10 THEN <<Digits[n \div 10]>> ELSE <<>>)
            \o (IF n % 10 = 0 THEN <<"0">> ELSE <<Digits[n % 10]>>)

\* the portfolio items App has loaded
ScrollItems ==
    [n \in 1..ScrollLength |->
        [ItemE EXCEPT !.id = ScrollId(n),
                      !.categoryKey = IF n <= TravelCount THEN "travel" ELSE "tech"]]

\* the cards a visitor of the model clicks in delete mode
SelectableIds == {ScrollId(1), ScrollId(ScrollLength)}

\* PortfolioPage as it mounts
PortfolioPage ==
    [name |-> "/portfolio", activeFilter |-> FilterAll,
     displayCount |-> PortfolioItemsPerPage, isLoading |-> TRUE, timers |-> <<>>,
     isAdding |-> FALSE, isDeleteModeActive |-> FALSE, selectedIdsForDeletion |-> <<>>]

\* handleFilterChange, with the two effects on [activeFilter]: the loading
\* flag goes up for 600 ms and displayCount goes back to ITEMS_PER_PAGE; load
\* timers already set stay set
handleFilterChange(newCategoryValue) ==
    /\ pageState.name = "/portfolio"
    /\ newCategoryValue \in CategoriesOf("portfolio")
    /\ newCategoryValue # pageState.activeFilter
    /\ pageState' = [pageState EXCEPT !.activeFilter = newCategoryValue,
                                      !.isLoading = TRUE,
                                      !.displayCount = PortfolioItemsPerPage]
    /\ content' = itemsToDisplay(Rendered([content EXCEPT !.category = newCategoryValue],
                                          lang),
                                 PortfolioItemsPerPage)
    /\ last' = Event("handleFilterChange", 0, FALSE, None)
    /\ UNCHANGED <<userAddedPosts, userAddedPortfolioItems, allComments, backend, requests,
                   localStorage, user, isAuthenticated, loading, error, boot,
                   hash, location, isSuperUser, lang, net, expired, form>>

\* the 600 ms timer of the loading effect.  A load timer runs 300 ms and is
\* set only while isLoading is false, so every load timer set before the
\* filter changed has fired by now
LoadingTimerFires ==
    /\ pageState.name = "/portfolio"
    /\ pageState.isLoading
    /\ pageState.timers = <<>>
    /\ pageState' = [pageState EXCEPT !.isLoading = FALSE]
    /\ last' = Event("setIsLoading", 0, FALSE, None)
    /\ UNCHANGED <<userAddedPosts, userAddedPortfolioItems, allComments, backend, requests,
                   content, localStorage, user, isAuthenticated, loading, error, boot,
                   hash, location, isSuperUser, lang, net, expired, form>>

\* the IntersectionObserver callback with entries[0].isIntersecting: the
\* sentinel is rendered only while isLoading is false; the timer keeps the
\* filteredItems.length of the render that set it
SentinelIntersects ==
    /\ pageState.name = "/portfolio"
    /\ ~pageState.isLoading
    /\ pageState.displayCount < Len(content.processed)
    /\ Len(pageState.timers) < MaxTimers
    /\ pageState' = [pageState EXCEPT !.timers = Append(@, Len(content.processed))]
    /\ last' = Event("setTimeout", 0, FALSE, None)
    /\ UNCHANGED <<userAddedPosts, userAddedPortfolioItems, allComments, backend, requests,
                   content, localStorage, user, isAuthenticated, loading, error, boot,
                   hash, location, isSuperUser, lang, net, expired, form>>

\* the 300 ms load timer:
\* setDisplayCount(prev => Math.min(prev + ITEMS_TO_LOAD, filteredItems.length))
LoadTimerFires ==
    /\ pageState.name = "/portfolio"
    /\ pageState.timers # <<>>
    /\ pageState' = [pageState EXCEPT
                        !.displayCount = Min({@ + ITEMS_TO_LOAD, Head(pageState.timers)}),
                        !.timers = Tail(@)]
    /\ content' = itemsToDisplay(content, pageState'.displayCount)
    /\ last' = Event("setDisplayCount", 0, FALSE, None)
    /\ UNCHANGED <<userAddedPosts, userAddedPortfolioItems, allComments, backend, requests,
                   localStorage, user, isAuthenticated, loading, error, boot,
                   hash, location, isSuperUser, lang, net, expired, form>>

\* handleToggleDeleteMode, by a button rendered for a superuser only
handleToggleDeleteMode ==
    /\ pageState.name = "/portfolio"
    /\ isSuperUser
    /\ pageState' = [pageState EXCEPT !.isDeleteModeActive = ~@,
                                      !.selectedIdsForDeletion = <<>>,
                                      !.isAdding = FALSE]
    /\ last' = NoEvent
    /\ UNCHANGED <<userAddedPosts, userAddedPortfolioItems, allComments, backend, requests,
                   content, localStorage, user, isAuthenticated, loading, error, boot,
                   hash, location, isSuperUser, lang, net, expired, form>>

\* handleToggleSelectionForDeletion, by a click on a card in delete mode
handleToggleSelectionForDeletion(id) ==
    /\ pageState.name = "/portfolio"
    /\ pageState.isDeleteModeActive
    /\ ~pageState.isLoading
    /\ IncludesId(IdsOf(content.shown), id)
    /\ pageState' = [pageState EXCEPT
                        !.selectedIdsForDeletion = IF IncludesId(@, id)
                                                   THEN Filter(@, LAMBDA x : x # id)
                                                   ELSE Append(@, id)]
    /\ last' = NoEvent
    /\ UNCHANGED <<userAddedPosts, userAddedPortfolioItems, allComments, backend, requests,
                   content, localStorage, user, isAuthenticated, loading, error, boot,
                   hash, location, isSuperUser, lang, net, expired, form>>

\* handleDeleteConfirmed, by the confirm button shown while something is
\* selected
handleDeleteConfirmed ==
    /\ pageState.name = "/portfolio"
    /\ pageState.isDeleteModeActive
    /\ pageState.selectedIdsForDeletion # <<>>
    /\ Len(requests) < MaxRequests
    /\ requests' = DeleteCall("portfolio", pageState.selectedIdsForDeletion)
    /\ pageState' = [pageState EXCEPT !.selectedIdsForDeletion = <<>>,
                                      !.isDeleteModeActive = FALSE]
    /\ last' = Event("handleDeleteConfirmed", 0, FALSE, None)
    /\ UNCHANGED <<userAddedPosts, userAddedPortfolioItems, allComments, backend,
                   content, localStorage, user, isAuthenticated, loading, error, boot,
                   hash, location, isSuperUser, lang, net, expired, form>>

\* a superuser on the portfolio page as it mounts, the portfolio loaded
ScrollInit ==
    /\ SignedIn("admin", "/portfolio")
    /\ pageState = PortfolioPage
    /\ content = itemsToDisplay(Rendered(Opened("portfolio", ScrollItems), "en"),
                                PortfolioItemsPerPage)
    /\ lang = "en"
    /\ userAddedPosts = <<>>
    /\ userAddedPortfolioItems = ScrollItems
    /\ allComments = <<>>
    /\ backend = BackendOf(<<>>, ScrollItems)
    /\ requests = <<>>

ScrollNext ==
    \/ \E f \in CategoriesOf("portfolio") : handleFilterChange(f)
    \/ LoadingTimerFires
    \/ SentinelIntersects
    \/ LoadTimerFires
    \/ handleToggleDeleteMode
    \/ \E id \in SelectableIds : handleToggleSelectionForDeletion(id)
    \/ handleDeleteConfirmed
    \/ \E c \in 1..MaxRequests, i \in 1..Cardinality(SelectableIds), status \in {200, 500} :
          DeleteAnswer(c, i, status)

ScrollSpec == ScrollInit /\ [][ScrollNext]_vars

-----------------------------------------------------------------------------
(* App: the comments, the forms that create content, and the pages a       *)
(* visitor moves between.                                                  *)

\* how many handlers of App may be at an await together
MaxCalls == 2

\* how many posts and portfolio items the forms may create, and how many
\* comments the visitors may add
MaxIssued == 2
MaxAdded == 1

\* parentId: null
NoParent == <<>>

\* the comments the backend holds at the start: a thread of three under the
\* first post and a single comment under the second
CommentA == [id |-> <<"c", "1">>, postId |-> ItemA.id, parentId |-> NoParent]
CommentB == [id |-> <<"c", "2">>, postId |-> ItemA.id, parentId |-> <<"c", "1">>]
CommentC == [id |-> <<"c", "3">>, postId |-> ItemA.id, parentId |-> <<"c", "2">>]
CommentD == [id |-> <<"c", "4">>, postId |-> ItemB.id, parentId |-> NoParent]
StoredComments == <<CommentA, CommentD, CommentB, CommentC>>

\* the id the backend gives to the next record it creates
IssuedId(n) == <<"n", Digits[n + 1]>>

\* the ids of the comments under comment id, as the backend removes them with it
RECURSIVE RepliesUnder(_, _, _)
RepliesUnder(comments, id, n) ==
    IF n = 0 THEN {}
    ELSE LET direct == {comments[i].id : i \in {j \in DOMAIN comments :
                                                    comments[j].parentId = id}}
         IN direct \cup UNION {RepliesUnder(comments, d, n - 1) : d \in direct}

RECURSIVE findChildren(_, _)

\* handleDeleteComment that looks for direct replies only
findChildrenDirect(p, parentId) ==
    {p[i].id : i \in {j \in DOMAIN p : p[j].parentId = parentId}}

\* handleDeleteComment.findChildren: the ids it adds to toDelete
findChildren(p, parentId) ==
    UNION {{p[i].id} \cup findChildren(p, p[i].id) :
              i \in {j \in DOMAIN p : p[j].parentId = parentId}}

\* the updater of handleDeleteComment: p.filter(c => !toDelete.has(c.id))
WithoutComment(p, id) ==
    Filter(p, LAMBDA c : c.id \notin ({id} \cup findChildren(p, id)))

\* the calls of a kind that are at their await
Pending(calls, kinds) == {i \in DOMAIN calls : calls[i].op \in kinds}

\* the state a page has when it mounts
Mounted(path) ==
    CASE path = "/portfolio" -> PortfolioPage
      [] path = "/blog/add" -> [name |-> path, isSubmitting |-> FALSE]
      [] path \in ManagePaths -> ManagePage(path)
      [] path \in {"/blog", "/blog/:postId"} -> [name |-> path]
      [] OTHER -> NoPage

\* what the content page of a route shows when it mounts
MountedContent(path, portfolioItems, language) ==
    IF path = "/portfolio"
    THEN itemsToDisplay(Rendered(Opened("portfolio", portfolioItems), language),
                        PortfolioItemsPerPage)
    ELSE NoContent

\* the pages a visitor of the model goes to
AppPaths == {"/blog", "/blog/:postId", "/blog/add", "/portfolio"}

\* navigateTo(page): the route guards decide which page mounts
Visit(path) ==
    /\ boot = "done"
    /\ path # location
    /\ location' = Settle(path, isAuthenticated, isSuperUser)
    /\ location' # location
    /\ pageState' = Mounted(location')
    /\ content' = MountedContent(location', userAddedPortfolioItems, lang)
    /\ last' = Event("navigateTo", 0, FALSE, None)
    /\ UNCHANGED <<userAddedPosts, userAddedPortfolioItems, allComments, backend, requests,
                   localStorage, user, isAuthenticated, loading, error, boot,
                   hash, isSuperUser, lang, net, expired, form>>

\* App.handleAddComment to its await, called by the comment form of the post
\* page: "if (!isAuthenticated) return"
handleAddComment(postId, parentId) ==
    /\ pageState.name = "/blog/:postId"
    /\ IncludesId(IdsOf(userAddedPosts), postId)
    /\ parentId # NoParent
           => IncludesId(IdsOf(getCommentsByPost(allComments, postId)), parentId)
    /\ Len(requests) < MaxCalls
    /\ backend.issued + Cardinality(Pending(requests, {"addComment", "createPost",
                                                       "createPortfolioItem"})) < MaxAdded
    /\ IF ~isAuthenticated
       THEN /\ requests' = requests
            /\ last' = Returns(Event("handleAddComment", 0, FALSE, None), "returned", NoBody)
       ELSE /\ requests' = Append(requests, [op |-> "addComment", postId |-> postId,
                                             parentId |-> parentId])
            /\ last' = Event("handleAddComment", 0, TRUE, None)
    /\ UNCHANGED <<userAddedPosts, userAddedPortfolioItems, allComments, backend, pageState,
                   content, localStorage, user, isAuthenticated, loading, error, boot,
                   hash, location, isSuperUser, lang, net, expired, form>>

\* the rest of handleAddComment once POST /comments is answered:
\* setAllComments(p => [...p, mapped]), or the alert
AddCommentAnswer(c, status) ==
    /\ c \in DOMAIN requests
    /\ requests[c].op = "addComment"
    /\ status \in {200, 500}
    /\ \E created \in {[id |-> IssuedId(backend.issued), postId |-> requests[c].postId,
                        parentId |-> requests[c].parentId]} :
          IF status = 200
          THEN /\ backend' = [backend EXCEPT !.comments = Append(@, created),
                                             !.issued = @ + 1]
               /\ allComments' = Append(allComments, created)
          ELSE UNCHANGED <<backend, allComments>>
    /\ requests' = RemoveAt(requests, c)
    /\ last' = Event("addComment", status, TRUE, None)
    /\ localStorage' = RequestStorage(localStorage, [status |-> status])
    /\ UNCHANGED <<userAddedPosts, userAddedPortfolioItems, pageState, content,
                   user, isAuthenticated, loading, error, boot,
                   hash, location, isSuperUser, lang, net, expired, form>>

\* App.handleDeleteComment to its await, called by the comment list of the
\* post page: "if (!isSuperUser) return"
handleDeleteComment(id) ==
    /\ pageState.name = "/blog/:postId"
    /\ Len(requests) < MaxCalls
    /\ IncludesId(IdsOf(allComments), id)
    /\ IF ~isSuperUser
       THEN /\ requests' = requests
            /\ last' = Returns(Event("handleDeleteComment", 0, FALSE, None), "returned",
                               NoBody)
       ELSE /\ requests' = Append(requests, [op |-> "deleteComment", id |-> id])
            /\ last' = Event("handleDeleteComment", 0, TRUE, None)
    /\ UNCHANGED <<userAddedPosts, userAddedPortfolioItems, allComments, backend, pageState,
                   content, localStorage, user, isAuthenticated, loading, error, boot,
                   hash, location, isSuperUser, lang, net, expired, form>>

\* the rest of handleDeleteComment once DELETE /comments/:id is answered: the
\* updater that drops the comment and its replies, or the alert
DeleteCommentAnswer(c, status) ==
    /\ c \in DOMAIN requests
    /\ requests[c].op = "deleteComment"
    /\ status \in (IF IncludesId(IdsOf(backend.comments), requests[c].id)
                   THEN {200, 500} ELSE {404})
    /\ IF status = 200
       THEN /\ backend' = [backend EXCEPT !.comments =
                   Filter(@, LAMBDA x : x.id \notin
                       ({requests[c].id}
                        \cup RepliesUnder(backend.comments, requests[c].id,
                                          Len(backend.comments))))]
            /\ allComments' = WithoutComment(allComments, requests[c].id)
       ELSE UNCHANGED <<backend, allComments>>
    /\ requests' = RemoveAt(requests, c)
    /\ last' = Event("deleteComment", status, TRUE, requests[c].id)
    /\ localStorage' = RequestStorage(localStorage, [status |-> status])
    /\ UNCHANGED <<userAddedPosts, userAddedPortfolioItems, pageState, content,
                   user, isAuthenticated, loading, error, boot,
                   hash, location, isSuperUser, lang, net, expired, form>>

\* App.handleDeleteBlogPosts, called by BlogPage with the ids of its delete mode
handleDeleteBlogPosts(ids) ==
    /\ pageState.name = "/blog"
    /\ Len(requests) < MaxCalls
    /\ requests' = DeleteCall("posts", ids)
    /\ last' = IF isSuperUser THEN Event("handleDeleteBlogPosts", 0, TRUE, None)
               ELSE Returns(Event("handleDeleteBlogPosts", 0, FALSE, None), "returned",
                            NoBody)
    /\ UNCHANGED <<userAddedPosts, userAddedPortfolioItems, allComments, backend, pageState,
                   content, localStorage, user, isAuthenticated, loading, error, boot,
                   hash, location, isSuperUser, lang, net, expired, form>>

\* the add post form with a submit button that is never disabled
AddPostSubmitAgain ==
    /\ pageState.name = "/blog/add"
    /\ Len(requests) < MaxCalls
    /\ backend.issued + Cardinality(Pending(requests, {"addComment", "createPost",
                                                       "createPortfolioItem"})) < MaxIssued
    /\ pageState' = [pageState EXCEPT !.isSubmitting = TRUE]
    /\ requests' = Append(requests, [op |-> "createPost", superUser |-> isSuperUser])
    /\ last' = Event("handleFormSubmit", 0, TRUE, None)
    /\ UNCHANGED <<userAddedPosts, userAddedPortfolioItems, allComments, backend,
                   content, localStorage, user, isAuthenticated, loading, error, boot,
                   hash, location, isSuperUser, lang, net, expired, form>>

\* AddBlogPostPage.handleFormSubmit to its await, the form filled in; the
\* submit button is disabled while isSubmitting
AddPostSubmit ==
    /\ pageState.name = "/blog/add"
    /\ ~pageState.isSubmitting
    /\ Len(requests) < MaxCalls
    /\ backend.issued + Cardinality(Pending(requests, {"addComment", "createPost",
                                                       "createPortfolioItem"})) < MaxIssued
    /\ IF ~isSuperUser
       THEN /\ location' = Settle("/login", isAuthenticated, isSuperUser)
            /\ pageState' = NoPage
            /\ requests' = requests
            /\ last' = Returns(Event("handleFormSubmit", 0, FALSE, None), "returned", NoBody)
       ELSE /\ location' = location
            /\ pageState' = [pageState EXCEPT !.isSubmitting = TRUE]
            /\ requests' = Append(requests, [op |-> "createPost", superUser |-> isSuperUser])
            /\ last' = Event("handleFormSubmit", 0, TRUE, None)
    /\ UNCHANGED <<userAddedPosts, userAddedPortfolioItems, allComments, backend,
                   content, localStorage, user, isAuthenticated, loading, error, boot,
                   hash, isSuperUser, lang, net, expired, form>>

\* App.handleSaveBlogPost's updater: replace the post of that id or put the
\* new one first
SavedPosts(p, postData) ==
    IF IncludesId(IdsOf(p), postData.id)
    THEN [i \in DOMAIN p |-> IF p[i].id = postData.id THEN postData ELSE p[i]]
    ELSE <<postData>> \o p

\* the rest of AddBlogPostPage.handleFormSubmit once POST /content/posts is
\* answered: onSave(newPost), which is the handleSaveBlogPost of the render
\* that submitted, then navigateTo the post; the alert after a failure;
\* setIsSubmitting(false) in both cases
CreatePostAnswer(c, status) ==
    /\ c \in DOMAIN requests
    /\ requests[c].op = "createPost"
    /\ status \in {200, 500}
    /\ \E newPost \in {[ItemC EXCEPT !.id = IssuedId(backend.issued)]} :
          IF status = 200
          THEN /\ backend' = [backend EXCEPT !.posts = @ \cup {newPost.id},
                                             !.issued = @ + 1]
               /\ userAddedPosts' = IF requests[c].superUser
                                    THEN SavedPosts(userAddedPosts, newPost)
                                    ELSE userAddedPosts
               /\ requests' = IF requests[c].superUser
                              THEN CommentsEffect(RemoveAt(requests, c), userAddedPosts')
                              ELSE RemoveAt(requests, c)
               /\ location' = Settle("/blog/:postId", isAuthenticated, isSuperUser)
               /\ pageState' = IF location' = location THEN pageState
                               ELSE Mounted(location')
               /\ content' = IF location' = location THEN content
                             ELSE MountedContent(location', userAddedPortfolioItems, lang)
          ELSE /\ requests' = RemoveAt(requests, c)
               /\ pageState' = IF pageState.name = "/blog/add"
                               THEN [pageState EXCEPT !.isSubmitting = FALSE]
                               ELSE pageState
               /\ UNCHANGED <<backend, userAddedPosts, location, content>>
    /\ last' = Event("createPost", status, TRUE, None)
    /\ localStorage' = RequestStorage(localStorage, [status |-> status])
    /\ UNCHANGED <<userAddedPortfolioItems, allComments,
                   user, isAuthenticated, loading, error, boot,
                   hash, isSuperUser, lang, net, expired, form>>

\* handleShowAddForm, by a button rendered for a superuser only
handleShowAddForm ==
    /\ pageState.name = "/portfolio"
    /\ isSuperUser
    /\ ~pageState.isAdding
    /\ pageState' = [pageState EXCEPT !.isAdding = TRUE, !.isDeleteModeActive = FALSE,
                                      !.selectedIdsForDeletion = <<>>]
    /\ last' = NoEvent
    /\ UNCHANGED <<userAddedPosts, userAddedPortfolioItems, allComments, backend, requests,
                   content, localStorage, user, isAuthenticated, loading, error, boot,
                   hash, location, isSuperUser, lang, net, expired, form>>

\* handleCancelForm, by the cancel button of the form
handleCancelForm ==
    /\ pageState.name = "/portfolio"
    /\ pageState.isAdding
    /\ pageState' = [pageState EXCEPT !.isAdding = FALSE]
    /\ last' = NoEvent
    /\ UNCHANGED <<userAddedPosts, userAddedPortfolioItems, allComments, backend, requests,
                   content, localStorage, user, isAuthenticated, loading, error, boot,
                   hash, location, isSuperUser, lang, net, expired, form>>

\* PortfolioPage.handleFormSubmit to its await, the form filled in: no test
\* of isSuperUser, no flag that disables the button
PortfolioSubmit ==
    /\ pageState.name = "/portfolio"
    /\ pageState.isAdding
    /\ Len(requests) < MaxCalls
    /\ backend.issued + Cardinality(Pending(requests, {"addComment", "createPost",
                                                       "createPortfolioItem"})) < MaxIssued
    /\ requests' = Append(requests, [op |-> "createPortfolioItem",
                                     superUser |-> isSuperUser])
    /\ last' = Event("handleFormSubmit", 0, TRUE, None)
    /\ UNCHANGED <<userAddedPosts, userAddedPortfolioItems, allComments, backend, pageState,
                   content, localStorage, user, isAuthenticated, loading, error, boot,
                   hash, location, isSuperUser, lang, net, expired, form>>

\* the rest of PortfolioPage.handleFormSubmit once POST /content/portfolio is
\* answered: onAddPortfolioItem(newItem), which is the handleAddPortfolioItem
\* of the render that submitted ("if (!isSuperUser) return", then the new item
\* first), and handleCancelForm; the alert after a failure
CreatePortfolioAnswer(c, status) ==
    /\ c \in DOMAIN requests
    /\ requests[c].op = "createPortfolioItem"
    /\ status \in {200, 500}
    /\ \E newItem \in {[ItemE EXCEPT !.id = IssuedId(backend.issued)]} :
          IF status = 200
          THEN /\ backend' = [backend EXCEPT !.portfolio = @ \cup {newItem.id},
                                             !.issued = @ + 1]
               /\ userAddedPortfolioItems' = IF requests[c].superUser
                                             THEN <<newItem>> \o userAddedPortfolioItems
                                             ELSE userAddedPortfolioItems
               /\ pageState' = IF pageState.name = "/portfolio"
                               THEN [pageState EXCEPT !.isAdding = FALSE]
                               ELSE pageState
          ELSE UNCHANGED <<backend, userAddedPortfolioItems, pageState>>
    /\ requests' = RemoveAt(requests, c)
    /\ content' = Redisplayed(content, pageState', userAddedPosts,
                              userAddedPortfolioItems', lang)
    /\ last' = Event("createPortfolioItem", status, TRUE, None)
    /\ localStorage' = RequestStorage(localStorage, [status |-> status])
    /\ UNCHANGED <<userAddedPosts, allComments,
                   user, isAuthenticated, loading, error, boot,
                   hash, location, isSuperUser, lang, net, expired, form>>

\* the pages a visitor goes to in the specification of the comments
CommentPaths == {"/blog", "/blog/:postId"}

\* a visitor on a post page, signed in, the content loaded and the comments
\* being loaded
CommentInit ==
    /\ \E name \in {"admin", "alice"} : SignedIn(name, "/blog/:postId")
    /\ pageState = Mounted("/blog/:postId")
    /\ content = NoContent
    /\ lang = "en"
    /\ userAddedPosts = LoadedPosts
    /\ userAddedPortfolioItems = LoadedPortfolioItems
    /\ allComments = <<>>
    /\ backend = [BackendOf(LoadedPosts, LoadedPortfolioItems)
                     EXCEPT !.comments = StoredComments]
    /\ requests = CommentsEffect(<<>>, LoadedPosts)

\* the ids of the comments the model knows
CommentIds == IdSetOf(StoredComments) \cup {IssuedId(n) : n \in 0..(MaxAdded - 1)}

CommentNext ==
    \/ \E path \in CommentPaths : Visit(path)
    \/ \E c \in 1..MaxCalls, status \in {200, 500} : ReloadAnswer(c, status)
    \/ \E postId \in IdSetOf(LoadedPosts), parentId \in {NoParent} \cup CommentIds :
          handleAddComment(postId, parentId)
    \/ \E c \in 1..MaxCalls, status \in {200, 500} : AddCommentAnswer(c, status)
    \/ \E id \in CommentIds : handleDeleteComment(id)
    \/ \E c \in 1..MaxCalls, status \in {200, 404, 500} : DeleteCommentAnswer(c, status)
    \/ \E id \in IdSetOf(LoadedPosts) : handleDeleteBlogPosts(<<id>>)
    \/ \E c \in 1..MaxCalls, status \in {200, 404, 500} : DeleteAnswer(c, 1, status)

CommentSpec == CommentInit /\ [][CommentNext]_vars

-----------------------------------------------------------------------------
(* The four forms, each on its page: login, register, add post and add     *)
(* portfolio item.                                                         *)

\* a visitor who is not signed in, on path, after initializeAuth
SignedOut(path) ==
    /\ localStorage = EmptyStorage
    /\ user = NoUser
    /\ isAuthenticated = FALSE
    /\ isSuperUser = FALSE
    /\ loading = FALSE
    /\ error = NoError
    /\ boot = "done"
    /\ hash = <<>>
    /\ location = Settle(path, FALSE, FALSE)
    /\ net = [o \in Ops |-> Idle]
    /\ expired = FALSE
    /\ last = NoEvent
    /\ form = NoForm

FormInit ==
    /\ \/ \E path \in AuthPages : SignedOut(path)
       \/ \E path \in {"/blog/add", "/portfolio"} : SignedIn("admin", path)
    /\ pageState = Mounted(location)
    /\ content = MountedContent(location, LoadedPortfolioItems, "en")
    /\ lang = "en"
    /\ userAddedPosts = LoadedPosts
    /\ userAddedPortfolioItems = LoadedPortfolioItems
    /\ allComments = <<>>
    /\ backend = BackendOf(LoadedPosts, LoadedPortfolioItems)
    /\ requests = <<>>

FormNext ==
    \/ \E c \in LoginInputs : LoginSubmit(c.username, c.password)
    \/ LoginFinish
    \/ \E d \in RegisterInputs : RegisterSubmit(d)
    \/ RegisterFinish
    \/ AddPostSubmit
    \/ \E c \in 1..MaxCalls, status \in {200, 500} : CreatePostAnswer(c, status)
    \/ \E c \in 1..MaxCalls, status \in {200, 500} : ReloadAnswer(c, status)
    \/ handleShowAddForm
    \/ handleCancelForm
    \/ LoadingTimerFires
    \/ PortfolioSubmit
    \/ \E c \in 1..MaxCalls, status \in {200, 500} : CreatePortfolioAnswer(c, status)

FormSpec == FormInit /\ [][FormNext]_vars

-----------------------------------------------------------------------------
(* The handlers that change content, called in the sessions of a superuser, *)
(* of a user and of a visitor who is not signed in; the superuser may log   *)
(* out while requests are in flight.                                        *)

\* what is loaded when the sessions start
GuardPosts == <<ItemA>>
GuardPortfolioItems == <<ItemE>>
GuardComments == <<CommentA>>

GuardInit ==
    /\ \/ \E name \in {"admin", "alice"} : SignedIn(name, "/blog")
       \/ SignedOut("/blog")
    /\ pageState = Mounted(location)
    /\ content = MountedContent(location, GuardPortfolioItems, "en")
    /\ lang = "en"
    /\ userAddedPosts = GuardPosts
    /\ userAddedPortfolioItems = GuardPortfolioItems
    /\ allComments = GuardComments
    /\ backend = [BackendOf(GuardPosts, GuardPortfolioItems)
                     EXCEPT !.comments = GuardComments]
    /\ requests = <<>>

GuardNext ==
    \/ \E path \in AppPaths : Visit(path)
    \/ LogoutClick
    \/ LogoutFinish
    \/ \E c \in 1..MaxCalls, status \in {200, 500} : ReloadAnswer(c, status)
    \/ \E postId \in IdSetOf(GuardPosts), parentId \in {NoParent} \cup IdSetOf(GuardComments) :
          handleAddComment(postId, parentId)
    \/ \E c \in 1..MaxCalls, status \in {200, 500} : AddCommentAnswer(c, status)
    \/ \E id \in IdSetOf(GuardComments) : handleDeleteComment(id)
    \/ \E c \in 1..MaxCalls, status \in {200, 404, 500} : DeleteCommentAnswer(c, status)
    \/ \E id \in IdSetOf(GuardPosts) : handleDeleteBlogPosts(<<id>>)
    \/ \E c \in 1..MaxCalls, status \in {200, 404, 500} : DeleteAnswer(c, 1, status)
    \/ AddPostSubmit
    \/ \E c \in 1..MaxCalls, status \in {200, 500} : CreatePostAnswer(c, status)
    \/ handleShowAddForm
    \/ handleCancelForm
    \/ LoadingTimerFires
    \/ PortfolioSubmit
    \/ \E c \in 1..MaxCalls, status \in {200, 500} : CreatePortfolioAnswer(c, status)
    \/ handleToggleDeleteMode
    \/ \E id \in IdSetOf(GuardPortfolioItems) : handleToggleSelectionForDeletion(id)
    \/ handleDeleteConfirmed

GuardSpec == GuardInit /\ [][GuardNext]_vars

-----------------------------------------------------------------------------
(* Token exchange                                                          *)

\* C11: once the logout forced by a failed refresh has ended, the access
\* token, the refresh token and the cached profile are gone and the session
\* is Anonymous
C11_FailedRefreshForcesLogout ==
    last.op = "forced" =>
        /\ localStorage.authToken = None
        /\ localStorage.refreshToken = None
        /\ localStorage.userProfile = NoUser
        /\ ~isAuthenticated
        /\ user = NoUser

\* C12: once a request sent with the access token has met HTTP 401 while a
\* refresh token is stored, a request exchanging the refresh token follows
C12_RejectedTokenIsExchanged ==
    (last.status = 401 /\ last.withToken /\ localStorage.refreshToken # None)
        ~> (net.refresh.st = "sent")

-----------------------------------------------------------------------------
(* Login and registration                                                  *)

C14_LoginClassifiesFailures ==
    last.op = "login" =>
        /\ last.status \in ErrorStatuses => (last.ret = "false" /\ error # NoError)
        /\ last.status = 0 => last.ret = "throw"

\* C15: a submit of the register form whose password differs from
\* confirmPassword sends no request, shows an error, and leaves the session
\* and the Token Store as they were
C15_MismatchSendsNothing ==
    [][(last'.op = "submit" /\ last'.arg.password # last'.arg.confirmPassword) =>
          /\ net' = net
          /\ form' # NoForm
          /\ localStorage' = localStorage
          /\ user' = user
          /\ isAuthenticated' = isAuthenticated
          /\ loading' = loading]_vars

\* the form was submitted with a username long enough and two different passwords
C15_MismatchReported ==
    /\ last.op = "submit"
    /\ last.arg.password # last.arg.confirmPassword
    /\ TextLength[last.arg.username] >= 3
    /\ form.error = PasswordsDoNotMatchError
    /\ net.register.st = "idle"

\* C16: after a failed registration the register form shows a username-taken
\* answer in the username slot alone, an email-taken answer in the email slot
\* alone and every other failure in the form-level slot alone, whatever the
\* language
C16_FieldErrorsInEveryLanguage ==
    (last.op = "register" /\ last.ret = "false" /\ location = "/register") =>
        IF last.status # 0 /\ RegisterRejections(last.arg) = UsernameTakenMessages
        THEN form.usernameError # <<>> /\ form.emailError = <<>> /\ form.error = <<>>
        ELSE IF last.status # 0 /\ RegisterRejections(last.arg) = EmailTakenMessages
        THEN form.usernameError = <<>> /\ form.emailError # <<>> /\ form.error = <<>>
        ELSE form.usernameError = <<>> /\ form.emailError = <<>> /\ form.error # <<>>

-----------------------------------------------------------------------------
(* Content List Pipeline                                                   *)

\* the pages 1..pages of xs at size items a page, one after the other
ConcatPages(xs, size, pages) ==
    LET f[p \in 0..pages] == IF p = 0 THEN <<>> ELSE f[p - 1] \o paginate(xs, p, size)
    IN f[pages]

\* ceil(n / size)
PageCount(n, size) == (n + size - 1) \div size

\* C17: the page on screen is the slice of the filtered and sorted list for
\* the current page; the pages 1..ceil(len/N), one after the other, are that
\* list, and every page behind the last is empty
C17_PagesPartitionTheList ==
    content.view \in {"posts", "photos", "archive"} =>
        LET xs == content.processed
            size == PageSize(content)
            pages == PageCount(Len(xs), size)
        IN /\ content.shown = paginate(xs, content.currentPage, size)
           /\ ConcatPages(xs, size, pages) = xs
           /\ \A p \in (pages + 1)..(pages + MaxPage) : paginate(xs, p, size) = <<>>
           /\ \A p, q \in 1..pages : \A i \in 1..Len(paginate(xs, p, size)) :
                 \A j \in 1..Len(paginate(xs, q, size)) :
                    paginate(xs, p, size)[i] = paginate(xs, q, size)[j] => (p = q /\ i = j)

\* the second and last page of a list that fills more than one page is on screen
C17_SecondPageShown ==
    /\ content.view = "archive"
    /\ Len(content.processed) = ArchiveItemsPerPage + 1
    /\ content.currentPage = 2
    /\ Len(content.shown) = 1

\* the elements of a list
Elements(xs) == {xs[i] : i \in DOMAIN xs}

\* the category keys of a logical category
KeysOfCategory(titleKey) ==
    UNION {blogCategoryDefinitions[d].categoryKeys :
             d \in {e \in DOMAIN blogCategoryDefinitions :
                       blogCategoryDefinitions[e].titleKey = titleKey}}

\* the posts of a collection that belong to a logical category
PostsOfCategory(xs, titleKey) ==
    IF titleKey = "all" THEN Elements(xs)
    ELSE {x \in Elements(xs) : x.categoryKey \in KeysOfCategory(titleKey)}

\* C18: PostManagementPage lists exactly the posts whose categoryKey is a key
\* of the selected logical category, all posts under "all"; sorted by
\* date-desc, its first page holds the min(N, matches) most recent of them,
\* the most recent first
C18_CategoryFilterIsExact ==
    content.view = "posts" =>
        LET matches == PostsOfCategory(content.items, content.category)
            shown == content.shown
        IN /\ Elements(content.processed) = matches
           /\ Len(content.processed) = Cardinality(matches)
           /\ (content.sortOrder = "date-desc" /\ content.currentPage = 1) =>
                 /\ Len(shown) = (IF content.itemsPerPage < Cardinality(matches)
                                  THEN content.itemsPerPage ELSE Cardinality(matches))
                 /\ Elements(shown) \subseteq matches
                 /\ \A i, j \in DOMAIN shown : i < j => shown[i].date >= shown[j].date
                 /\ \A x \in matches \ Elements(shown) :
                       \A y \in Elements(shown) : x.date <= y.date

\* a logical category of two keys is selected and its first page holds fewer
\* posts than the category, a post of another category being left out
C18_FirstPageOfCategory ==
    /\ content.view = "posts"
    /\ content.category = "categoryPage.photography"
    /\ content.sortOrder = "date-desc"
    /\ content.currentPage = 1
    /\ Len(content.items) = 3
    /\ Len(content.processed) = 2
    /\ content.itemsPerPage = 1
    /\ {content.processed[1].categoryKey, content.processed[2].categoryKey}
          = {"photography", "travel"}

\* the posts of a collection that CategoryArchivePage shows for a category
PostsOfArchive(xs, titleKey) ==
    IF titleKey = FilterAll THEN Elements(xs)
    ELSE {x \in Elements(xs) : x.categoryKey \in KeysOfCategory(titleKey)}

\* the term, compared without regard to case, is a part of one of the six fields
ContainsTerm(x, term) ==
    \E field \in {x.title, x.titleZh, x.content, x.contentZh, x.excerpt, x.excerptZh} :
        Includes(ToLower(field), ToLower(term))

\* C19 as stated: the search keeps a post of the category if and only if the
\* term is a part of one of its six fields, so the empty term keeps them all
C19_SearchIsSubstringMatch ==
    content.view = "archive" =>
        Elements(content.processed) =
            {x \in PostsOfArchive(content.items, content.category) :
                ContainsTerm(x, content.searchTerm)}

\* C19: a term that is empty or holds only white space keeps every post of
\* the category; any other term keeps a post if and only if the term is a
\* part of one of its six fields
C19_SearchKeepsMatchingPosts ==
    content.view = "archive" =>
        Elements(content.processed) =
            {x \in PostsOfArchive(content.items, content.category) :
                \/ \A i \in DOMAIN content.searchTerm : content.searchTerm[i] \in WhiteSpace
                \/ ContainsTerm(x, content.searchTerm)}

\* a term in mixed case has kept the one post whose excerpt holds it in
\* another case
C19_SearchFoundOnePost ==
    /\ content.view = "archive"
    /\ content.searchTerm = <<"b", "C">>
    /\ Len(content.items) = 3
    /\ content.processed = <<ItemB>>

\* C20: sorted once more by its sort key, the list of a content page keeps
\* its order, and so does the page's collection sorted by any key, items of
\* equal keys included
C20_SortIsIdempotent ==
    content.view \in Views =>
        /\ ArraySort(content.processed, content.view, content.sortOrder, lang)
              = content.processed
        /\ \A k \in SortOrders :
              ArraySort(ArraySort(content.items, content.view, k, lang),
                        content.view, k, lang)
                 = ArraySort(content.items, content.view, k, lang)

\* PortfolioPage shows, sorted by views, two items of equal view count in the
\* order the collection has them
C20_EqualKeysKeepTheirOrder ==
    /\ content.view = "portfolio"
    /\ content.sortOrder = "views-asc"
    /\ content.items = <<ItemA, ItemE, ItemB>>
    /\ content.processed = <<ItemE, ItemB, ItemA>>

\* C23: a session that reports isAuthenticated = true has an access token
\* in the Token Store
C23_AuthenticatedHasToken ==
    isAuthenticated => localStorage.authToken # None

\* the list views that show one page of their list at a time
PaginatedViews == {"archive", "posts", "photos"}

\* C30: in a paginated list view a change of the sort order, of the category
\* filter or of the search term sets the current page to 1, and the page then
\* shown of a non-empty result is not empty
C30_ControlsResetThePage ==
    [][(/\ content.view \in PaginatedViews
        /\ \/ content'.sortOrder # content.sortOrder
           \/ content'.category # content.category
           \/ content'.searchTerm # content.searchTerm)
       => /\ content'.currentPage = 1
          /\ content'.processed # <<>> => content'.shown # <<>>]_vars

\* C25: once a bulk delete has completed, with success or with failure, the
\* local collection holds no item whose DELETE the backend has carried out
C25_NoDeletedItemLeft ==
    requests = <<>> =>
        /\ IdSetOf(userAddedPosts) \subseteq backend.posts
        /\ IdSetOf(userAddedPortfolioItems) \subseteq backend.portfolio

\* C28: selectedIds holds only ids of items that are still in the collection
C28_SelectionExists ==
    pageState.name \in ManagePaths =>
        \A i \in DOMAIN pageState.selectedIds :
            pageState.selectedIds[i] \in
                IdSetOf(IF pageState.name = "/manage/posts" THEN userAddedPosts
                      ELSE userAddedPortfolioItems)

\* C26: a growth step of the infinite scroll never leaves displayCount above
\* the length of the collection filtered by the filter then active
C26_GrowthCappedAtActiveFilter ==
    (pageState.name = "/portfolio" /\ last.op = "setDisplayCount")
        => pageState.displayCount <= Len(content.processed)

\* C21: displayCount changes only by a filter switch, which sets it to
\* ITEMS_PER_PAGE, or by a growth step that adds ITEMS_TO_LOAD capped at the
\* length of the filtered collection, and it decreases only by a filter switch
C21_DisplayCountSteps ==
    [][(/\ pageState.name = "/portfolio"
        /\ pageState'.name = "/portfolio"
        /\ pageState'.displayCount # pageState.displayCount)
       => \/ /\ pageState'.activeFilter # pageState.activeFilter
             /\ pageState'.displayCount = PortfolioItemsPerPage
          \/ /\ pageState'.activeFilter = pageState.activeFilter
             /\ pageState'.displayCount > pageState.displayCount
             /\ pageState'.displayCount =
                    Min({pageState.displayCount + ITEMS_TO_LOAD,
                         Len(content'.processed)})]_vars

\* the elements of a list, as a set
ElementsOf(xs) == {xs[i] : i \in DOMAIN xs}

\* C24: a comment-loading effect that ends well is never one that a later
\* started effect has overtaken, and it leaves in allComments every comment
\* that was there, that the backend still holds and whose post is loaded (so a
\* comment appended by handleAddComment survives it)
C24_NoLostCommentUpdate ==
    [][(last'.op = "reload" /\ last'.status = 200)
       => /\ last'.ret # "overtaken"
          /\ \A x \in ElementsOf(allComments) :
                (x \in ElementsOf(backend.comments) /\ x.postId \in IdSetOf(userAddedPosts))
                    => x \in ElementsOf(allComments')]_vars

\* the comment id and its transitive replies
ThreadOf(comments, id) == {id} \cup RepliesUnder(comments, id, Len(comments))

\* C29: a successful handleDeleteComment(id) removes from allComments exactly
\* the comment id and its transitive replies, keeps the other comments in their
\* order and leaves no comment whose parent was removed; a failed one leaves
\* allComments as it was
C29_DeleteRemovesTheThread ==
    [][last'.op = "deleteComment"
       => IF last'.status = 200
          THEN /\ allComments' = Filter(allComments,
                       LAMBDA x : x.id \notin ThreadOf(allComments, last'.arg))
               /\ \A x \in ElementsOf(allComments') :
                      x.parentId \notin ThreadOf(allComments, last'.arg)
          ELSE allComments' = allComments]_vars

\* a thread of three comments has been deleted by its root and the comment of
\* the other post is left
C29_ThreadDeleted ==
    /\ last.op = "deleteComment"
    /\ last.status = 200
    /\ last.arg = CommentA.id
    /\ allComments = <<CommentD>>

\* the requests of the add post form and of the add portfolio item form that
\* are at their await
PostsBeingCreated == Cardinality(Pending(requests, {"createPost"}))
ItemsBeingCreated == Cardinality(Pending(requests, {"createPortfolioItem"}))

\* C22: each of the four forms, mounted with the request of a first
\* submission in flight, accepts a second submission
C22_EveryFormResubmits ==
    /\ (location = "/login" /\ net.login.st = "sent")
          => ENABLED (\E c \in LoginInputs : LoginSubmit(c.username, c.password))
    /\ (location = "/register" /\ net.register.st = "sent")
          => ENABLED (\E d \in RegisterInputs : RegisterSubmit(d))
    /\ (pageState.name = "/blog/add" /\ PostsBeingCreated = 1 /\ Len(requests) = 1)
          => ENABLED AddPostSubmit
    /\ (pageState.name = "/portfolio" /\ pageState.isAdding
           /\ ItemsBeingCreated = 1 /\ Len(requests) = 1
           /\ backend.issued = 0)
          => ENABLED PortfolioSubmit

\* C22, amended: the login, register and add post forms, mounted with the
\* request of a submission in flight, accept no second submission, so the add
\* post form never has two requests in flight; the add portfolio item form
\* accepts one, and every answer 200 to one of its requests puts the created
\* item first in the list
C22_OnlyTheItemFormResubmits ==
    /\ [](/\ (location = "/login" /\ net.login.st = "sent")
                => ~ENABLED (\E c \in LoginInputs : LoginSubmit(c.username, c.password))
          /\ (location = "/register" /\ net.register.st = "sent")
                => ~ENABLED (\E d \in RegisterInputs : RegisterSubmit(d))
          /\ (pageState.name = "/blog/add" /\ PostsBeingCreated > 0)
                => (~ENABLED AddPostSubmit /\ PostsBeingCreated = 1)
          /\ (pageState.name = "/portfolio" /\ pageState.isAdding
                 /\ ItemsBeingCreated = 1 /\ Len(requests) = 1
                 /\ backend.issued = 0)
                => ENABLED PortfolioSubmit)
    /\ [][(last'.op = "createPortfolioItem" /\ last'.status = 200)
            => /\ Len(userAddedPortfolioItems') = Len(userAddedPortfolioItems) + 1
               /\ Tail(userAddedPortfolioItems') = userAddedPortfolioItems
               /\ Head(userAddedPortfolioItems').id \notin IdSetOf(userAddedPortfolioItems)
         ]_vars

\* the add portfolio item form has been submitted twice and both requests are
\* in flight
C22_TwoItemRequestsInFlight ==
    /\ pageState.name = "/portfolio"
    /\ pageState.isAdding
    /\ ItemsBeingCreated = 2

\* the requests of each kind of handler that are at their await
SuperUserRequests ==
    Cardinality(Pending(requests, {"posts", "portfolio", "deleteComment", "createPost",
                                   "createPortfolioItem"}))
CommentRequests == Cardinality(Pending(requests, {"addComment"}))

\* C27: a step of a content-mutation path (the call of a handler or the
\* handling of the answer to its request) that sends a request or changes a
\* local collection is taken while isSuperUser is true, and one of adding a
\* comment while isAuthenticated is true
C27_EffectOnlyWhileSuperUser ==
    [][/\ (/\ last'.op \in {"handleDeleteBlogPosts", "handleDeleteConfirmed",
                            "handleDeleteComment", "handleFormSubmit", "posts",
                            "portfolio", "deleteComment", "createPost",
                            "createPortfolioItem"}
           /\ \/ SuperUserRequests' > SuperUserRequests
              \/ <<userAddedPosts, userAddedPortfolioItems, allComments>>'
                    # <<userAddedPosts, userAddedPortfolioItems, allComments>>)
          => isSuperUser
       /\ (/\ last'.op \in {"handleAddComment", "addComment"}
           /\ \/ CommentRequests' > CommentRequests
              \/ allComments' # allComments)
          => isAuthenticated
      ]_vars

\* C27, amended: the condition is the one of the moment the handler is called.
\* While isSuperUser is false no request of a create, save or delete handler
\* is sent, and while isAuthenticated is false no request to add a comment;
\* a handler called then returns with the collections, the backend and the
\* requests as they were; the add portfolio item form, which sends its request
\* unguarded, is never open while isSuperUser is false
C27_GuardAtTheCall ==
    /\ [](pageState.name = "/portfolio" /\ pageState.isAdding => isSuperUser)
    /\ [][/\ ~isSuperUser => SuperUserRequests' <= SuperUserRequests
          /\ ~isAuthenticated => CommentRequests' <= CommentRequests
          /\ (\/ /\ ~isSuperUser
                 /\ last'.op \in {"handleDeleteBlogPosts", "handleDeleteConfirmed",
                                  "handleDeleteComment", "handleFormSubmit"}
              \/ /\ ~isAuthenticated
                 /\ last'.op = "handleAddComment")
             => /\ last'.ret = "returned"
                /\ UNCHANGED <<userAddedPosts, userAddedPortfolioItems, allComments,
                               backend, requests>>
         ]_vars

\* a signed-in user who is not a superuser has asked to delete a comment, and
\* the handler returned
C27_DeleteRefused ==
    /\ isAuthenticated
    /\ ~isSuperUser
    /\ last.op = "handleDeleteComment"
    /\ last.ret = "returned"
    /\ requests = <<>>
====
